---- MODULE Spec2Model ----
(***************************************************************************)
(* Seat assignment of the canoe organizer: the Convex mutations of         *)
(* convex/eventAssignments.ts, convex/attendance.ts, convex/canoes.ts and  *)
(* convex/paddlers.ts, and the handlers of the two App components that     *)
(* call them, and the addEvent mutation of convex/events.ts, step by step. *)
(* Every other mutation is one atomic step (a Convex mutation is a         *)
(* transaction); a handler is a list of mutation calls computed from the   *)
(* values its closure captured, carried out one batch after the other.     *)
(***************************************************************************)
EXTENDS Integers, Sequences, FiniteSets, TLC

(***************************************************************************)
(* Bounds of the model.                                                    *)
(***************************************************************************)
NumPaddlers == 3
NumCanoes == 2
NumEvents == 2
MaxSeatArg == 2

(***************************************************************************)
(* Program constants.                                                      *)
(***************************************************************************)
SeatsPerCanoe == 6
NoPreference == 999

PaddlerIds == 1..NumPaddlers
CanoeIds == 1..NumCanoes
Events == 1..NumEvents
SeatArgs == 1..MaxSeatArg

\* The value of an optional field that is not set (undefined).
Undefined == 0

\* A value that JavaScript takes for true in a condition.
Truthy(x) == x # Undefined

VARIABLES paddlers, canoes, eventAssignments, attendance, events, lockedCanoes,
          canoePriority, ui, last

vars == <<paddlers, canoes, eventAssignments, attendance, events, lockedCanoes,
          canoePriority, ui, last>>

(***************************************************************************)
(* Tables.  A table is a bag of documents: a function from each document   *)
(* present to the number of copies of it (two documents with equal fields  *)
(* and different _id are two copies).                                      *)
(***************************************************************************)
EmptyTable == [d \in {} |-> 0]

Docs(table) == DOMAIN table

Copies(table, d) == IF d \in DOMAIN table THEN table[d] ELSE 0

Insert(table, d) ==
    [x \in DOMAIN table \cup {d} |-> Copies(table, x) + (IF x = d THEN 1 ELSE 0)]

\* ctx.db.delete of one document.
DeleteOne(table, d) ==
    [x \in {y \in DOMAIN table : y # d \/ table[y] > 1} |->
        IF x = d THEN table[x] - 1 ELSE table[x]]

\* ctx.db.delete of every document of a collected list.
DeleteAll(table, ds) == [x \in DOMAIN table \ ds |-> table[x]]

RowCount(table, ds) ==
    LET RECURSIVE Sum(_)
        Sum(S) == IF S = {} THEN 0
                  ELSE LET d == CHOOSE x \in S : TRUE IN table[d] + Sum(S \ {d})
    IN Sum(ds \cap DOMAIN table)

(***************************************************************************)
(* The roster.  Paddler i of the paddlers table; the attributes differ     *)
(* from paddler to paddler so that every sort criterion reorders the       *)
(* table.                                                                  *)
(***************************************************************************)
Genders == <<"wahine", "kane">>
Types == <<"racer", "casual", "very-casual">>
SeatPreferences == << <<0, 0, 0, 0, 0, 0>>, <<6, 1, 2, 0, 0, 0>>, <<3, 0, 0, 0, 0, 0>>, <<>> >>

PaddlerDoc(i) ==
    [id |-> i,
     ability |-> ((2 * i) % 5) + 1,
     gender |-> Genders[((i - 1) % 2) + 1],
     type |-> Types[((i - 1) % 3) + 1],
     seatPreference |-> SeatPreferences[((i - 1) % 4) + 1],
     assignedCanoe |-> Undefined,
     assignedSeat |-> Undefined]

CanoeDoc(i) == [id |-> i, assignments |-> <<>>, status |-> "open"]

AssignmentRow(eventId, canoeId, seat, paddlerId) ==
    [eventId |-> eventId, canoeId |-> canoeId, seat |-> seat, paddlerId |-> paddlerId]

AttendanceRow(paddlerId, eventId, attending) ==
    [paddlerId |-> paddlerId, eventId |-> eventId, attending |-> attending]

(***************************************************************************)
(* The sort of the optimal fill.                                           *)
(***************************************************************************)
\* The spelling of the schema's string literals, letter by letter
\* (a = 1 .. z = 26, the hyphen sorts before every letter).
Spelling(s) ==
    CASE s = "kane" -> <<11, 1, 14, 5>>
      [] s = "wahine" -> <<23, 1, 8, 9, 14, 5>>
      [] s = "racer" -> <<18, 1, 3, 5, 18>>
      [] s = "casual" -> <<3, 1, 19, 21, 1, 12>>
      [] s = "very-casual" -> <<22, 5, 18, 25, 0, 3, 1, 19, 21, 1, 12>>

RECURSIVE LexCompare(_, _)
LexCompare(x, y) ==
    IF x = <<>> /\ y = <<>> THEN 0
    ELSE IF x = <<>> THEN -1
    ELSE IF y = <<>> THEN 1
    ELSE IF Head(x) < Head(y) THEN -1
    ELSE IF Head(x) > Head(y) THEN 1
    ELSE LexCompare(Tail(x), Tail(y))

ComparesBackwards(a, b) == LexCompare(Spelling(b), Spelling(a))

localeCompare(a, b) == LexCompare(Spelling(a), Spelling(b))

FirstDigit(pref) == IF pref = <<>> THEN NoPreference ELSE pref[1]

getPref(pref) ==
    IF pref = <<>> THEN NoPreference
    ELSE LET seats == SelectSeq(pref, LAMBDA n : n >= 1 /\ n <= 6)
         IN IF Len(seats) > 0 THEN seats[1] ELSE NoPreference

Criterion(id, a, b) ==
    CASE id = "ability" -> b.ability - a.ability
      [] id = "gender" -> localeCompare(a.gender, b.gender)
      [] id = "type" -> localeCompare(a.type, b.type)
      [] id = "seatPreference" -> getPref(a.seatPreference) - getPref(b.seatPreference)

FirstCriterionOnly(priority, a, b) == Criterion(Head(priority), a, b)

RECURSIVE ComparePriority(_, _, _)
ComparePriority(priority, a, b) ==
    IF priority = <<>> THEN 0
    ELSE LET comparison == Criterion(Head(priority), a, b)
         IN IF comparison # 0 THEN comparison
            ELSE ComparePriority(Tail(priority), a, b)

Comparator(priority, a, b) ==
    IF Len(priority) > 0 THEN ComparePriority(priority, a, b)
    ELSE b.ability - a.ability

\* Array.prototype.sort: a stable sort.  The element taken next goes behind
\* the last element already placed that does not sort after it.
RECURSIVE SortFrom(_, _, _)
SortFrom(sorted, rest, priority) ==
    IF rest = <<>> THEN sorted
    ELSE LET x == Head(rest)
             keep == {j \in 1..Len(sorted) : Comparator(priority, sorted[j], x) <= 0}
             k == IF keep = {} THEN 0 ELSE CHOOSE j \in keep : \A i \in keep : i <= j
         IN SortFrom(SubSeq(sorted, 1, k) \o <<x>> \o SubSeq(sorted, k + 1, Len(sorted)),
                     Tail(rest), priority)

SortPaddlers(list, priority) == SortFrom(<<>>, list, priority)

(***************************************************************************)
(* convex/eventAssignments.ts                                              *)
(***************************************************************************)
EventRows(table, eventId) == {a \in Docs(table) : a.eventId = eventId}

KeepsOldSeat(eventId, paddlerId) == {}

\* The paddler's rows for the event (index by_event_paddler).
ExistingForPaddler(eventId, paddlerId) ==
    {a \in EventRows(eventAssignments, eventId) : a.paddlerId = paddlerId}

AssignPaddlerToSeat(eventId, paddlerId, canoeId, seat) ==
    LET existingForPaddler == ExistingForPaddler(eventId, paddlerId)
        cleared == DeleteAll(eventAssignments, existingForPaddler)
        existingForSeat == {a \in EventRows(cleared, eventId) : a.canoeId = canoeId}
        occupants == {a \in existingForSeat : a.seat = seat}
        row == AssignmentRow(eventId, canoeId, seat, paddlerId)
    IN /\ IF occupants = {}
          THEN eventAssignments' = Insert(cleared, row)
          ELSE \E occupant \in occupants :
                  eventAssignments' = Insert(DeleteOne(cleared, occupant), row)
       /\ UNCHANGED <<paddlers, canoes, attendance>>

UnassignPaddler(eventId, paddlerId, canoeId, seat) ==
    LET assignments == {a \in EventRows(eventAssignments, eventId) : a.canoeId = canoeId}
        matches == {a \in assignments : a.seat = seat /\ a.paddlerId = paddlerId}
    IN /\ IF matches = {}
          THEN UNCHANGED eventAssignments
          ELSE \E match \in matches : eventAssignments' = DeleteOne(eventAssignments, match)
       /\ UNCHANGED <<paddlers, canoes, attendance>>

UnassignAllEvents(eventId, excludeCanoeIds) ==
    /\ eventAssignments' =
           DeleteAll(eventAssignments,
                     {a \in Docs(eventAssignments) : a.canoeId \notin excludeCanoeIds})
    /\ UNCHANGED <<paddlers, canoes, attendance>>

UnassignAllForEvent(eventId, excludeCanoeIds) ==
    LET assignments == EventRows(eventAssignments, eventId)
    IN /\ eventAssignments' =
              DeleteAll(eventAssignments, {a \in assignments : a.canoeId \notin excludeCanoeIds})
       /\ UNCHANGED <<paddlers, canoes, attendance>>

UnseatedPool(eventId, excludeSet, onlyReassignExisting) ==
    SelectSeq(paddlers,
              LAMBDA p : /\ \E r \in Docs(attendance) :
                               r.eventId = eventId /\ r.attending /\ r.paddlerId = p.id
                         /\ \A a \in EventRows(eventAssignments, eventId) :
                               a.paddlerId # p.id)

\* The paddlers the optimal fill works on.
FillPool(eventId, excludeSet, onlyReassignExisting) ==
    LET attendingPaddlerIds ==
            {a.paddlerId : a \in {r \in Docs(attendance) : r.eventId = eventId /\ r.attending}}
        existingAssignments == EventRows(eventAssignments, eventId)
        lockedPaddlerIds ==
            {a.paddlerId : a \in {r \in existingAssignments : r.canoeId \in excludeSet}}
        assignedToUnlockedIds ==
            {a.paddlerId : a \in {r \in existingAssignments : r.canoeId \notin excludeSet}}
    IN IF onlyReassignExisting
       THEN SelectSeq(paddlers, LAMBDA p : p.id \in assignedToUnlockedIds)
       ELSE SelectSeq(SelectSeq(paddlers, LAMBDA p : p.id \in attendingPaddlerIds),
                      LAMBDA p : p.id \notin lockedPaddlerIds)

OnePerCanoe(table, eventId, canoeId, seat, sorted, paddlerIndex) ==
    [table |-> Insert(table, AssignmentRow(eventId, canoeId, seat, sorted[paddlerIndex + 1].id)),
     paddlerIndex |-> paddlerIndex + 1]

\* for (let seat = 1; seat <= 6 && paddlerIndex < paddlers.length; seat++)
RECURSIVE FillSeats(_, _, _, _, _, _)
FillSeats(table, eventId, canoeId, seat, sorted, paddlerIndex) ==
    IF seat <= SeatsPerCanoe /\ paddlerIndex < Len(sorted)
    THEN FillSeats(Insert(table, AssignmentRow(eventId, canoeId, seat, sorted[paddlerIndex + 1].id)),
                   eventId, canoeId, seat + 1, sorted, paddlerIndex + 1)
    ELSE [table |-> table, paddlerIndex |-> paddlerIndex]

\* for (const canoe of canoes)
RECURSIVE FillCanoes(_, _, _, _, _, _)
FillCanoes(table, eventId, excludeSet, list, sorted, paddlerIndex) ==
    IF list = <<>> THEN table
    ELSE IF Head(list).id \in excludeSet
         THEN FillCanoes(table, eventId, excludeSet, Tail(list), sorted, paddlerIndex)
    ELSE IF paddlerIndex >= Len(sorted) THEN table
    ELSE LET filled == FillSeats(table, eventId, Head(list).id, 1, sorted, paddlerIndex)
         IN FillCanoes(filled.table, eventId, excludeSet, Tail(list), sorted,
                       filled.paddlerIndex)

ClearLockedToo(eventId, excludeSet) ==
    DeleteAll(eventAssignments, EventRows(eventAssignments, eventId))

\* "Clear non-locked assignments"
ClearUnlocked(eventId, excludeSet) ==
    DeleteAll(eventAssignments,
              {a \in EventRows(eventAssignments, eventId) : a.canoeId \notin excludeSet})

AssignOptimalForEvent(eventId, priority, excludeCanoeIds, onlyReassignExisting) ==
    \E pool \in {FillPool(eventId, excludeCanoeIds, onlyReassignExisting)} :
    \E cleared \in {ClearUnlocked(eventId, excludeCanoeIds)} :
    \E sorted \in {SortPaddlers(pool, priority)} :
       /\ eventAssignments' = FillCanoes(cleared, eventId, excludeCanoeIds, canoes, sorted, 0)
       /\ UNCHANGED <<paddlers, canoes, attendance>>

(***************************************************************************)
(* convex/canoes.ts                                                        *)
(***************************************************************************)
\* nanoid(): an id no canoe has.
NewCanoeId ==
    LET ids == {canoes[i].id : i \in DOMAIN canoes}
    IN IF ids = {} THEN 1 ELSE 1 + (CHOOSE m \in ids : \A n \in ids : n <= m)

AddCanoe ==
    /\ canoes' = Append(canoes, CanoeDoc(NewCanoeId))
    /\ UNCHANGED <<paddlers, eventAssignments, attendance>>

\* .withIndex("by_paddler_id", q => q.eq("id", paddlerId)).unique()
PaddlerFound(paddlerId) == \E i \in DOMAIN paddlers : paddlers[i].id = paddlerId

PaddlerDocOf(paddlerId) ==
    paddlers[CHOOSE i \in DOMAIN paddlers : paddlers[i].id = paddlerId]

\* .withIndex("by_canoe_id", q => q.eq("id", canoeId)).unique()
CanoeFound(canoeId) == \E i \in DOMAIN canoes : canoes[i].id = canoeId

CanoeDocOf(canoeId) == canoes[CHOOSE i \in DOMAIN canoes : canoes[i].id = canoeId]

PatchesCanoeOnly(list, paddlerId, assignedCanoe, assignedSeat) ==
    [i \in DOMAIN list |->
        IF list[i].id = paddlerId
        THEN [list[i] EXCEPT !.assignedCanoe = assignedCanoe]
        ELSE list[i]]

\* ctx.db.patch of a paddler's assignedCanoe and assignedSeat.
PatchPaddler(list, paddlerId, assignedCanoe, assignedSeat) ==
    [i \in DOMAIN list |->
        IF list[i].id = paddlerId
        THEN [list[i] EXCEPT !.assignedCanoe = assignedCanoe, !.assignedSeat = assignedSeat]
        ELSE list[i]]

\* ctx.db.patch of a canoe's assignments and status.
PatchCanoe(list, canoeId, assignments, status) ==
    [i \in DOMAIN list |->
        IF list[i].id = canoeId
        THEN [list[i] EXCEPT !.assignments = assignments, !.status = status]
        ELSE list[i]]

Entry(seat, paddlerId) == [seat |-> seat, paddlerId |-> paddlerId]

WithoutFirst(assignments, seat, paddlerId) ==
    IF assignments = <<>> THEN assignments ELSE Tail(assignments)

\* assignments.filter(a => !(a.seat === seat && a.paddlerId === paddlerId))
WithoutEntry(assignments, seat, paddlerId) ==
    SelectSeq(assignments, LAMBDA a : ~(a.seat = seat /\ a.paddlerId = paddlerId))

NoSeatLimit(list, seat, canoeIndex, sorted, paddlerIndex, placed) ==
    IF list = <<>> THEN <<>>
    ELSE [i \in 1..Len(sorted) |->
             [canoeId |-> list[((i - 1) % Len(list)) + 1].id,
              seat |-> ((i - 1) \div Len(list)) + 1,
              paddlerId |-> sorted[i].id]]

CanoeMajor(list, seat, canoeIndex, sorted, paddlerIndex, placed) ==
    LET n == IF Len(sorted) < SeatsPerCanoe * Len(list) THEN Len(sorted)
             ELSE SeatsPerCanoe * Len(list)
    IN [i \in 1..n |-> [canoeId |-> list[((i - 1) \div SeatsPerCanoe) + 1].id,
                        seat |-> ((i - 1) % SeatsPerCanoe) + 1,
                        paddlerId |-> sorted[i].id]]

\* Round-robin distribution: fill all seat 1s, then all seat 2s, etc.  The
\* value is the list of the entries in the order the loops push them.
RECURSIVE RoundRobin(_, _, _, _, _, _)
RoundRobin(list, seat, canoeIndex, sorted, paddlerIndex, placed) ==
    IF seat > SeatsPerCanoe \/ paddlerIndex >= Len(sorted) THEN placed
    ELSE IF canoeIndex > Len(list)
         THEN RoundRobin(list, seat + 1, 1, sorted, paddlerIndex, placed)
    ELSE RoundRobin(list, seat, canoeIndex + 1, sorted, paddlerIndex + 1,
                    Append(placed, [canoeId |-> list[canoeIndex].id, seat |-> seat,
                                    paddlerId |-> sorted[paddlerIndex + 1].id]))

EntriesOf(placed, canoeId) ==
    LET mine == SelectSeq(placed, LAMBDA x : x.canoeId = canoeId)
    IN [k \in DOMAIN mine |-> Entry(mine[k].seat, mine[k].paddlerId)]

AssignOptimal(priority) ==
    \E sorted \in {SortPaddlers(paddlers, priority)} :
    \E placed \in {RoundRobin(canoes, 1, 1, sorted, 0, <<>>)} :
    LET PlaceOf(paddlerId) == {k \in DOMAIN placed : placed[k].paddlerId = paddlerId}
    IN /\ paddlers' =
             [i \in DOMAIN paddlers |->
                 IF PlaceOf(paddlers[i].id) = {}
                 THEN [paddlers[i] EXCEPT !.assignedCanoe = Undefined,
                                          !.assignedSeat = Undefined]
                 ELSE LET k == CHOOSE k \in PlaceOf(paddlers[i].id) : TRUE
                      IN [paddlers[i] EXCEPT !.assignedCanoe = placed[k].canoeId,
                                             !.assignedSeat = placed[k].seat]]
       /\ canoes' =
             [i \in DOMAIN canoes |->
                 LET assignments == EntriesOf(placed, canoes[i].id)
                 IN [canoes[i] EXCEPT
                        !.assignments = assignments,
                        !.status = IF Len(assignments) = SeatsPerCanoe THEN "full"
                                   ELSE "open"]]
       /\ UNCHANGED <<eventAssignments, attendance>>

\* The canoes after "Remove paddler from old assignment if exists".
RemovedFromOld(paddlerId, oldCanoeId, oldSeat) ==
    IF Truthy(oldCanoeId) /\ Truthy(oldSeat) /\ CanoeFound(oldCanoeId)
    THEN LET oldCanoeDoc == CanoeDocOf(oldCanoeId)
         IN PatchCanoe(canoes, oldCanoeId,
                       WithoutEntry(oldCanoeDoc.assignments, oldSeat, paddlerId),
                       oldCanoeDoc.status)
    ELSE canoes

CanoesAssignPaddlerToSeat(paddlerId, canoeId, seat, oldCanoeId, oldSeat) ==
    /\ PaddlerFound(paddlerId)
    /\ CanoeFound(canoeId)
    /\ LET newCanoeDoc == CanoeDocOf(canoeId)
           updatedNewCanoeAssignments ==
               Append(SelectSeq(newCanoeDoc.assignments, LAMBDA a : a.seat # seat),
                      Entry(seat, paddlerId))
       IN canoes' = PatchCanoe(RemovedFromOld(paddlerId, oldCanoeId, oldSeat), canoeId,
                               updatedNewCanoeAssignments,
                               IF Len(updatedNewCanoeAssignments) = SeatsPerCanoe
                               THEN "full" ELSE newCanoeDoc.status)
    /\ paddlers' = PatchPaddler(paddlers, paddlerId, canoeId, seat)
    /\ UNCHANGED <<eventAssignments, attendance>>

CanoesUnassignPaddler(paddlerId, canoeId, seat) ==
    /\ PaddlerFound(paddlerId)
    /\ CanoeFound(canoeId)
    /\ LET canoeDoc == CanoeDocOf(canoeId)
           updatedAssignments == WithoutEntry(canoeDoc.assignments, seat, paddlerId)
       IN canoes' = PatchCanoe(canoes, canoeId, updatedAssignments,
                               IF Len(updatedAssignments) < SeatsPerCanoe THEN "open"
                               ELSE canoeDoc.status)
    /\ paddlers' = PatchPaddler(paddlers, paddlerId, Undefined, Undefined)
    /\ UNCHANGED <<eventAssignments, attendance>>

RemoveCanoe(canoeId) ==
    /\ CanoeFound(canoeId)
    /\ LET canoeDoc == CanoeDocOf(canoeId)
           occupants == {canoeDoc.assignments[k].paddlerId : k \in DOMAIN canoeDoc.assignments}
       IN paddlers' = [i \in DOMAIN paddlers |->
                          IF paddlers[i].id \in occupants
                          THEN [paddlers[i] EXCEPT !.assignedCanoe = Undefined,
                                                   !.assignedSeat = Undefined]
                          ELSE paddlers[i]]
    /\ canoes' = SelectSeq(canoes, LAMBDA c : c.id # canoeId)
    /\ UNCHANGED <<eventAssignments, attendance>>

(***************************************************************************)
(* convex/paddlers.ts                                                      *)
(***************************************************************************)
DeletePaddler(paddlerId) ==
    /\ PaddlerFound(paddlerId)
    /\ LET paddlerDoc == PaddlerDocOf(paddlerId)
       IN canoes' =
             IF /\ Truthy(paddlerDoc.assignedCanoe) /\ Truthy(paddlerDoc.assignedSeat)
                /\ CanoeFound(paddlerDoc.assignedCanoe)
             THEN LET canoeDoc == CanoeDocOf(paddlerDoc.assignedCanoe)
                      updatedAssignments ==
                          WithoutEntry(canoeDoc.assignments, paddlerDoc.assignedSeat,
                                       paddlerId)
                  IN PatchCanoe(canoes, canoeDoc.id, updatedAssignments,
                                IF Len(updatedAssignments) < SeatsPerCanoe THEN "open"
                                ELSE canoeDoc.status)
             ELSE canoes
    /\ paddlers' = SelectSeq(paddlers, LAMBDA q : q.id # paddlerId)
    /\ UNCHANGED <<eventAssignments, attendance>>

(***************************************************************************)
(* convex/attendance.ts                                                    *)
(***************************************************************************)
FindsNothing(paddlerId, eventId) == {}

\* .withIndex("by_paddler_event", ...): the rows of the pair.
AttendanceOf(paddlerId, eventId) ==
    {r \in Docs(attendance) : r.paddlerId = paddlerId /\ r.eventId = eventId}

\* .unique() throws, and the mutation aborts, when the index holds two rows.
UniqueOrNone(rows) == RowCount(attendance, rows) <= 1

ToggleAttendance(paddlerId, eventId) ==
    LET rows == AttendanceOf(paddlerId, eventId)
    IN /\ UniqueOrNone(rows)
       /\ IF rows = {}
          THEN attendance' = Insert(attendance, AttendanceRow(paddlerId, eventId, TRUE))
          ELSE LET existing == CHOOSE r \in rows : TRUE
               IN attendance' = Insert(DeleteOne(attendance, existing),
                                       AttendanceRow(paddlerId, eventId, ~existing.attending))
       /\ UNCHANGED <<paddlers, canoes, eventAssignments>>

SetWhenAbsent(paddlerId, eventId, attending) ==
    /\ attendance' =
          IF \E r \in Docs(attendance) : r.paddlerId = paddlerId /\ r.eventId = eventId
          THEN attendance
          ELSE Insert(attendance, AttendanceRow(paddlerId, eventId, attending))
    /\ UNCHANGED <<paddlers, canoes, eventAssignments>>

SetAttendance(paddlerId, eventId, attending) ==
    LET rows == AttendanceOf(paddlerId, eventId)
    IN /\ UniqueOrNone(rows)
       /\ IF rows = {}
          THEN attendance' = Insert(attendance, AttendanceRow(paddlerId, eventId, attending))
          ELSE LET existing == CHOOSE r \in rows : TRUE
               IN attendance' = Insert(DeleteOne(attendance, existing),
                                       AttendanceRow(paddlerId, eventId, attending))
       /\ UNCHANGED <<paddlers, canoes, eventAssignments>>

(***************************************************************************)
(* The state after the sample data is loaded: the roster and the canoes,   *)
(* no assignment, no attendance row, no canoe locked, no handler running.  *)
(***************************************************************************)
CANOE_SORT_OPTIONS == <<"ability", "gender", "type", "seatPreference">>

Idle == [handler |-> "none"]

NoCall == [op |-> "none"]

Init ==
    /\ paddlers = [i \in 1..NumPaddlers |-> PaddlerDoc(i)]
    /\ canoes = [i \in 1..NumCanoes |-> CanoeDoc(i)]
    /\ eventAssignments = EmptyTable
    /\ attendance = EmptyTable
    /\ events = <<>>
    /\ lockedCanoes = {}
    /\ canoePriority = CANOE_SORT_OPTIONS
    /\ ui = Idle
    /\ last = NoCall

(***************************************************************************)
(* Event mode, the mutations called directly with any arguments.  The      *)
(* first event is exercised with the whole roster; every other event holds *)
(* at most the first paddler, and nobody attends it: enough to tell one    *)
(* event's rows from another's.  last is the optimal fill whose result has *)
(* just been returned; the client takes the result before the next call.   *)
(***************************************************************************)
Priorities ==
    { <<>>,
      <<"ability", "gender", "type", "seatPreference">>,
      <<"gender", "type", "seatPreference", "ability">>,
      <<"seatPreference", "type", "ability", "gender">> }

SeatCalls ==
    {c \in Events \X PaddlerIds \X CanoeIds \X SeatArgs :
        c[1] = 1 \/ (c[2] = 1 /\ c[3] = 1 /\ c[4] = 1)}

Ready == last = NoCall /\ ui = Idle

Client == UNCHANGED <<lockedCanoes, canoePriority, events, ui, last>>

CallAssignPaddlerToSeat ==
    /\ Ready
    /\ \E c \in SeatCalls : AssignPaddlerToSeat(c[1], c[2], c[3], c[4])
    /\ Client

CallUnassignPaddler ==
    /\ Ready
    /\ \E c \in SeatCalls : UnassignPaddler(c[1], c[2], c[3], c[4])
    /\ Client

CallUnassignAllForEvent ==
    /\ Ready
    /\ \E eventId \in Events, excludeCanoeIds \in SUBSET CanoeIds :
          UnassignAllForEvent(eventId, excludeCanoeIds)
    /\ Client

CallAssignOptimalForEvent ==
    /\ Ready
    /\ \E eventId \in Events, priority \in Priorities, excludeCanoeIds \in SUBSET CanoeIds,
          onlyReassignExisting \in BOOLEAN :
          /\ AssignOptimalForEvent(eventId, priority, excludeCanoeIds, onlyReassignExisting)
          /\ last' = [op |-> "assignOptimalForEvent", eventId |-> eventId,
                      excludeCanoeIds |-> excludeCanoeIds,
                      onlyReassignExisting |-> onlyReassignExisting]
    /\ UNCHANGED <<lockedCanoes, canoePriority, events, ui>>

CallToggleAttendance ==
    /\ Ready
    /\ \E paddlerId \in PaddlerIds : ToggleAttendance(paddlerId, 1)
    /\ Client

CallSetAttendance ==
    /\ Ready
    /\ \E paddlerId \in PaddlerIds, attending \in BOOLEAN :
          SetAttendance(paddlerId, 1, attending)
    /\ Client

TakeResult ==
    /\ last # NoCall
    /\ last' = NoCall
    /\ UNCHANGED <<paddlers, canoes, eventAssignments, attendance, lockedCanoes,
                   canoePriority, events, ui>>

NextEvent ==
    \/ CallAssignPaddlerToSeat
    \/ CallUnassignPaddler
    \/ CallUnassignAllForEvent
    \/ CallAssignOptimalForEvent
    \/ CallToggleAttendance
    \/ CallSetAttendance
    \/ TakeResult

SpecEvent == Init /\ [][NextEvent]_vars

(***************************************************************************)
(* The event-mode App component (AppMain).  A handler reads the query      *)
(* results its closure captured when the user acted (the state at that     *)
(* moment: one client, no handler running) and issues its mutation calls.  *)
(* ui.queue holds the calls still to be made, batch after batch: a batch   *)
(* is what one await waits for, and the calls of one batch (Promise.all)   *)
(* are carried out in either order.  A finished handler returns before     *)
(* the user acts again.                                                    *)
(***************************************************************************)
SelectedEvent == 1

UnassignCall(eventId, paddlerId, canoeId, seat) ==
    [op |-> "unassignPaddler", eventId |-> eventId, paddlerId |-> paddlerId,
     canoeId |-> canoeId, seat |-> seat]

AssignCall(eventId, paddlerId, canoeId, seat) ==
    [op |-> "assignPaddlerToSeat", eventId |-> eventId, paddlerId |-> paddlerId,
     canoeId |-> canoeId, seat |-> seat]

Run(call) ==
    CASE call.op = "assignPaddlerToSeat" ->
            AssignPaddlerToSeat(call.eventId, call.paddlerId, call.canoeId, call.seat)
      [] call.op = "unassignPaddler" ->
            UnassignPaddler(call.eventId, call.paddlerId, call.canoeId, call.seat)
      [] call.op = "unassignAllForEvent" ->
            UnassignAllForEvent(call.eventId, call.excludeCanoeIds)
      [] call.op = "assignOptimalForEvent" ->
            AssignOptimalForEvent(call.eventId, call.priority, call.excludeCanoeIds,
                                  call.onlyReassignExisting)
      [] call.op = "toggleAttendance" -> ToggleAttendance(call.paddlerId, call.eventId)
      [] call.op = "setAttendance" ->
            SetAttendance(call.paddlerId, call.eventId, call.attending)
      [] call.op = "addCanoe" -> AddCanoe
      [] call.op = "canoes.assignPaddlerToSeat" ->
            CanoesAssignPaddlerToSeat(call.paddlerId, call.canoeId, call.seat,
                                      call.oldCanoeId, call.oldSeat)
      [] call.op = "canoes.unassignPaddler" ->
            CanoesUnassignPaddler(call.paddlerId, call.canoeId, call.seat)
      [] call.op = "canoes.assignOptimal" -> AssignOptimal(call.priority)
      [] call.op = "deletePaddler" -> DeletePaddler(call.paddlerId)

\* Array.find over a query result: the document found, or undefined.  When
\* several documents match, any of them (the index's order is not kept).
NoRow == [eventId |-> Undefined, canoeId |-> Undefined, seat |-> Undefined,
          paddlerId |-> Undefined]

Found(rows) == IF rows = {} THEN {NoRow} ELSE rows

InRoster(paddlerId) == \E i \in DOMAIN paddlers : paddlers[i].id = paddlerId

HasCanoe(canoeId) == \E i \in DOMAIN canoes : canoes[i].id = canoeId

\* useQuery(getAttendanceForEvent), eventAttendingPaddlerIds
eventAttendingPaddlerIds ==
    {r.paddlerId : r \in {a \in Docs(attendance) : a.eventId = SelectedEvent /\ a.attending}}

\* The droppable a paddler's card lies in.
SeatDroppable(canoeId, seat) == [kind |-> "seat", canoeId |-> canoeId, seat |-> seat]

Staging == [kind |-> "staging"]

TrashCan == [kind |-> "trash-can"]

SourceOf(currentAssignment) ==
    IF currentAssignment = NoRow THEN Staging
    ELSE SeatDroppable(currentAssignment.canoeId, currentAssignment.seat)

SwapEvictsOnly(draggableId, oldCanoeId, oldSeat, destCanoeId, destSeat, existingPaddlerId) ==
    IF Truthy(existingPaddlerId) /\ existingPaddlerId # draggableId
    THEN << {UnassignCall(SelectedEvent, existingPaddlerId, destCanoeId, destSeat)} >>
    ELSE <<>>

\* The SWAP branch of onDragEnd.
SwapCalls(draggableId, oldCanoeId, oldSeat, destCanoeId, destSeat, existingPaddlerId) ==
    IF Truthy(existingPaddlerId) /\ existingPaddlerId # draggableId
    THEN IF InRoster(existingPaddlerId) /\ Truthy(oldCanoeId) /\ Truthy(oldSeat)
         THEN << {UnassignCall(SelectedEvent, existingPaddlerId, destCanoeId, destSeat),
                  AssignCall(SelectedEvent, existingPaddlerId, oldCanoeId, oldSeat)} >>
         ELSE << {UnassignCall(SelectedEvent, existingPaddlerId, destCanoeId, destSeat)} >>
    ELSE <<>>

\* "Only unassign if we're actually moving (not just swapping)"
MoveCalls(draggableId, oldCanoeId, oldSeat, destCanoeId, destSeat) ==
    IF Truthy(oldCanoeId) /\ Truthy(oldSeat) /\ (oldCanoeId # destCanoeId \/ oldSeat # destSeat)
    THEN << {UnassignCall(SelectedEvent, draggableId, oldCanoeId, oldSeat)} >>
    ELSE <<>>

onDragEndCalls(draggableId, destination, currentAssignment, existingAssignment) ==
    LET oldCanoeId == currentAssignment.canoeId
        oldSeat == currentAssignment.seat
    IN IF destination = TrashCan
       THEN IF InRoster(draggableId)
            THEN (IF currentAssignment # NoRow
                  THEN << {UnassignCall(SelectedEvent, draggableId, oldCanoeId, oldSeat)} >>
                  ELSE <<>>)
                 \o << {[op |-> "setAttendance", paddlerId |-> draggableId,
                         eventId |-> SelectedEvent, attending |-> FALSE]} >>
            ELSE <<>>
       ELSE IF ~InRoster(draggableId) THEN <<>>
       ELSE IF Truthy(oldCanoeId) /\ oldCanoeId \in lockedCanoes THEN <<>>
       ELSE IF SourceOf(currentAssignment) = destination THEN <<>>
       ELSE IF destination = Staging
            THEN IF Truthy(oldCanoeId) /\ Truthy(oldSeat)
                 THEN << {UnassignCall(SelectedEvent, draggableId, oldCanoeId, oldSeat)} >>
                 ELSE <<>>
       ELSE IF destination.canoeId \in lockedCanoes THEN <<>>
       ELSE IF ~HasCanoe(destination.canoeId) THEN <<>>
       ELSE SwapCalls(draggableId, oldCanoeId, oldSeat, destination.canoeId,
                      destination.seat, existingAssignment.paddlerId)
            \o MoveCalls(draggableId, oldCanoeId, oldSeat, destination.canoeId,
                         destination.seat)
            \o << {AssignCall(SelectedEvent, draggableId, destination.canoeId,
                              destination.seat)} >>

Droppables ==
    {TrashCan, Staging} \cup {SeatDroppable(c, s) : c \in CanoeIds, s \in SeatArgs}

\* The cards on the page: the paddlers seated for the event, and the
\* attending paddlers without a seat (unassignedPaddlers).
Draggables ==
    {a.paddlerId : a \in EventRows(eventAssignments, SelectedEvent)}
        \cup eventAttendingPaddlerIds

Begin(handler, queue) ==
    /\ ui' = handler @@ [queue |-> queue, before |-> eventAssignments]
    /\ UNCHANGED <<paddlers, canoes, eventAssignments, attendance, last>>

onDragEnd ==
    /\ Ready
    /\ \E draggableId \in Draggables, destination \in Droppables :
       \E currentAssignment \in
             Found({a \in EventRows(eventAssignments, SelectedEvent) :
                       a.paddlerId = draggableId}) :
       \E existingAssignment \in
             Found({a \in EventRows(eventAssignments, SelectedEvent) :
                       /\ destination.kind = "seat"
                       /\ a.canoeId = destination.canoeId
                       /\ a.seat = destination.seat}) :
          Begin([handler |-> "onDragEnd", draggableId |-> draggableId,
                 destination |-> destination, currentAssignment |-> currentAssignment,
                 existingAssignment |-> existingAssignment],
                onDragEndCalls(draggableId, destination, currentAssignment,
                               existingAssignment))
    /\ UNCHANGED <<lockedCanoes, canoePriority, events>>

ToggleWithoutCascade(paddlerId, wasAttending, assignment) ==
    << {[op |-> "toggleAttendance", paddlerId |-> paddlerId, eventId |-> SelectedEvent]} >>

handleToggleAttendanceCalls(paddlerId, wasAttending, assignment) ==
    << {[op |-> "toggleAttendance", paddlerId |-> paddlerId, eventId |-> SelectedEvent]} >>
    \o (IF wasAttending /\ assignment # NoRow
        THEN << {UnassignCall(SelectedEvent, paddlerId, assignment.canoeId,
                              assignment.seat)} >>
        ELSE <<>>)

handleToggleAttendance ==
    /\ Ready
    /\ \E paddlerId \in PaddlerIds :
       \E assignment \in
             Found({a \in EventRows(eventAssignments, SelectedEvent) :
                       a.paddlerId = paddlerId}) :
          LET wasAttending == paddlerId \in eventAttendingPaddlerIds
          IN Begin([handler |-> "handleToggleAttendance", paddlerId |-> paddlerId,
                    wasAttending |-> wasAttending, assignment |-> assignment],
                   handleToggleAttendanceCalls(paddlerId, wasAttending, assignment))
    /\ UNCHANGED <<lockedCanoes, canoePriority, events>>

\* SchedulePage: the attendance square of an event calls the mutation alone.
ScheduleToggle ==
    /\ Ready
    /\ \E paddlerId \in PaddlerIds :
          Begin([handler |-> "scheduleToggle", paddlerId |-> paddlerId],
                << {[op |-> "toggleAttendance", paddlerId |-> paddlerId,
                     eventId |-> SelectedEvent]} >>)
    /\ UNCHANGED <<lockedCanoes, canoePriority, events>>

\* The add-paddler search of the Today page.
AddToEvent ==
    /\ Ready
    /\ \E paddlerId \in PaddlerIds \ eventAttendingPaddlerIds :
          Begin([handler |-> "addToEvent", paddlerId |-> paddlerId],
                << {[op |-> "setAttendance", paddlerId |-> paddlerId,
                     eventId |-> SelectedEvent, attending |-> TRUE]} >>)
    /\ UNCHANGED <<lockedCanoes, canoePriority, events>>

handleUnassignAll ==
    /\ Ready
    /\ Begin([handler |-> "handleUnassignAll"],
             << {[op |-> "unassignAllForEvent", eventId |-> SelectedEvent,
                  excludeCanoeIds |-> lockedCanoes]} >>)
    /\ UNCHANGED <<lockedCanoes, canoePriority, events>>

OptimalCall(priority, onlyReassignExisting) ==
    [op |-> "assignOptimalForEvent", eventId |-> SelectedEvent, priority |-> priority,
     excludeCanoeIds |-> lockedCanoes, onlyReassignExisting |-> onlyReassignExisting]

\* for (let i = canoes.length; i < neededCanoes; i++) await addCanoe(...)
AddCanoeCalls(neededCanoes) ==
    [i \in 1..(IF neededCanoes > Len(canoes) THEN neededCanoes - Len(canoes) ELSE 0) |->
        {[op |-> "addCanoe", name |-> Len(canoes) + i]}]

handleAssign ==
    /\ Ready
    /\ LET attendingCount == Cardinality(eventAttendingPaddlerIds)
           neededCanoes == (attendingCount + SeatsPerCanoe - 1) \div SeatsPerCanoe
       IN Begin([handler |-> "handleAssign"],
                AddCanoeCalls(neededCanoes) \o << {OptimalCall(canoePriority, FALSE)} >>)
    /\ UNCHANGED <<lockedCanoes, canoePriority, events>>

\* The sort pill's button: setCanoePriority(tempPriority); handleReassignCanoes().
\* The callback called is the one of the current render, whose closure holds
\* the priority as it was.
UIPriorities == {CANOE_SORT_OPTIONS, <<"gender", "type", "seatPreference", "ability">>}

handleReassignCanoes ==
    /\ Ready
    /\ \E tempPriority \in UIPriorities :
          /\ canoePriority' = tempPriority
          /\ Begin([handler |-> "handleReassignCanoes"],
                   << {OptimalCall(canoePriority, TRUE)} >>)
    /\ UNCHANGED <<lockedCanoes, events>>

ToggleLock ==
    /\ Ready
    /\ \E canoeId \in CanoeIds :
          lockedCanoes' = IF canoeId \in lockedCanoes THEN lockedCanoes \ {canoeId}
                          ELSE lockedCanoes \cup {canoeId}
    /\ UNCHANGED <<paddlers, canoes, eventAssignments, attendance, canoePriority, events, ui, last>>

\* One pending mutation of the batch awaited is carried out.
MutationCompletes ==
    /\ ui # Idle
    /\ ui.queue # <<>>
    /\ \E call \in Head(ui.queue) :
          /\ Run(call)
          /\ ui' = [ui EXCEPT !.queue =
                       IF Head(ui.queue) = {call} THEN Tail(ui.queue)
                       ELSE <<Head(ui.queue) \ {call}>> \o Tail(ui.queue)]
    /\ UNCHANGED <<lockedCanoes, canoePriority, events, last>>

HandlerReturns ==
    /\ ui # Idle
    /\ ui.queue = <<>>
    /\ ui' = Idle
    /\ UNCHANGED <<paddlers, canoes, eventAssignments, attendance, lockedCanoes,
                   canoePriority, events, last>>

NextEventUI ==
    \/ onDragEnd
    \/ handleToggleAttendance
    \/ ScheduleToggle
    \/ AddToEvent
    \/ handleUnassignAll
    \/ handleAssign
    \/ handleReassignCanoes
    \/ ToggleLock
    \/ MutationCompletes
    \/ HandlerReturns

SpecEventUI == Init /\ [][NextEventUI]_vars

(***************************************************************************)
(* Global mode, the mutations of canoes.ts and deletePaddler called        *)
(* directly with any arguments.  A call that throws changes nothing.       *)
(***************************************************************************)
\* The optional arguments oldCanoeId and oldSeat: left out, or the seat the
\* paddler's document records.
OldArgs(paddlerId) ==
    {<<Undefined, Undefined>>} \cup
    (IF PaddlerFound(paddlerId)
     THEN {<<PaddlerDocOf(paddlerId).assignedCanoe, PaddlerDocOf(paddlerId).assignedSeat>>}
     ELSE {})

CallCanoesAssignPaddlerToSeat ==
    /\ \E paddlerId \in PaddlerIds, canoeId \in CanoeIds, seat \in SeatArgs :
       \E old \in OldArgs(paddlerId) :
          CanoesAssignPaddlerToSeat(paddlerId, canoeId, seat, old[1], old[2])
    /\ Client

CallCanoesUnassignPaddler ==
    /\ \E paddlerId \in PaddlerIds, canoeId \in CanoeIds, seat \in SeatArgs :
          CanoesUnassignPaddler(paddlerId, canoeId, seat)
    /\ Client

CallAssignOptimal ==
    /\ \E priority \in Priorities : AssignOptimal(priority)
    /\ Client

CallDeletePaddler ==
    /\ \E paddlerId \in PaddlerIds : DeletePaddler(paddlerId)
    /\ Client

CallRemoveCanoe ==
    /\ \E canoeId \in CanoeIds : RemoveCanoe(canoeId)
    /\ Client

NextGlobal ==
    \/ CallCanoesAssignPaddlerToSeat
    \/ CallCanoesUnassignPaddler
    \/ CallAssignOptimal
    \/ CallDeletePaddler
    \/ CallRemoveCanoe

SpecGlobal == Init /\ [][NextGlobal]_vars

(***************************************************************************)
(* The global-mode App component.  Its handlers read the paddlers and      *)
(* canoes query results of the render in which the user acted.             *)
(***************************************************************************)
GlobalAssignCall(paddlerId, canoeId, seat) ==
    [op |-> "canoes.assignPaddlerToSeat", paddlerId |-> paddlerId, canoeId |-> canoeId,
     seat |-> seat, oldCanoeId |-> Undefined, oldSeat |-> Undefined]

GlobalUnassignCall(paddlerId, canoeId, seat) ==
    [op |-> "canoes.unassignPaddler", paddlerId |-> paddlerId, canoeId |-> canoeId,
     seat |-> seat]

NoEntry == Entry(Undefined, Undefined)

\* canoe.assignments.find(a => a.seat === seat)
FirstEntry(canoeId, seat) ==
    IF ~HasCanoe(canoeId) THEN NoEntry
    ELSE LET assignments == CanoeDocOf(canoeId).assignments
             at == {k \in DOMAIN assignments : assignments[k].seat = seat}
         IN IF at = {} THEN NoEntry
            ELSE assignments[CHOOSE k \in at : \A j \in at : k <= j]

\* The droppables in which the paddler's card is drawn: every seat whose
\* entry names the paddler, and the staging area when assignedCanoe is unset.
GlobalCards(paddlerId) ==
    {d \in {SeatDroppable(c, s) : c \in CanoeIds, s \in 1..SeatsPerCanoe} :
        HasCanoe(d.canoeId) /\ FirstEntry(d.canoeId, d.seat).paddlerId = paddlerId}
    \cup (IF ~Truthy(PaddlerDocOf(paddlerId).assignedCanoe) THEN {Staging} ELSE {})

NoEviction(draggableId, oldCanoeId, oldSeat, destCanoeId, destSeat, existingPaddlerId) ==
    <<>>

GlobalSwapCalls(draggableId, oldCanoeId, oldSeat, destCanoeId, destSeat, existingPaddlerId) ==
    IF Truthy(existingPaddlerId) /\ existingPaddlerId # draggableId
    THEN IF InRoster(existingPaddlerId) /\ Truthy(oldCanoeId) /\ Truthy(oldSeat)
         THEN << {GlobalUnassignCall(existingPaddlerId, destCanoeId, destSeat),
                  GlobalAssignCall(existingPaddlerId, oldCanoeId, oldSeat)} >>
         ELSE << {GlobalUnassignCall(existingPaddlerId, destCanoeId, destSeat)} >>
    ELSE <<>>

GlobalMoveCalls(draggableId, oldCanoeId, oldSeat, destCanoeId, destSeat) ==
    IF Truthy(oldCanoeId) /\ Truthy(oldSeat) /\ (oldCanoeId # destCanoeId \/ oldSeat # destSeat)
    THEN << {GlobalUnassignCall(draggableId, oldCanoeId, oldSeat)} >>
    ELSE <<>>

GlobalOnDragEndCalls(draggableId, source, destination) ==
    LET draggedPaddler == PaddlerDocOf(draggableId)
        oldCanoeId == draggedPaddler.assignedCanoe
        oldSeat == draggedPaddler.assignedSeat
    IN IF destination = TrashCan
       THEN (IF Truthy(oldCanoeId) /\ Truthy(oldSeat)
             THEN << {GlobalUnassignCall(draggableId, oldCanoeId, oldSeat)} >>
             ELSE <<>>)
            \o << {[op |-> "deletePaddler", paddlerId |-> draggableId]} >>
       ELSE IF Truthy(oldCanoeId) /\ oldCanoeId \in lockedCanoes THEN <<>>
       ELSE IF source = destination THEN <<>>
       ELSE IF destination = Staging
            THEN IF Truthy(oldCanoeId) /\ Truthy(oldSeat)
                 THEN << {GlobalUnassignCall(draggableId, oldCanoeId, oldSeat)} >>
                 ELSE <<>>
       ELSE IF destination.canoeId \in lockedCanoes THEN <<>>
       ELSE IF ~HasCanoe(destination.canoeId) THEN <<>>
       ELSE GlobalSwapCalls(draggableId, oldCanoeId, oldSeat, destination.canoeId,
                            destination.seat,
                            FirstEntry(destination.canoeId, destination.seat).paddlerId)
            \o GlobalMoveCalls(draggableId, oldCanoeId, oldSeat, destination.canoeId,
                               destination.seat)
            \o << {GlobalAssignCall(draggableId, destination.canoeId, destination.seat)} >>

BeginGlobal(handler, queue) ==
    /\ ui' = handler @@ [queue |-> queue,
                         before |-> [paddlers |-> paddlers, canoes |-> canoes]]
    /\ UNCHANGED <<paddlers, canoes, eventAssignments, attendance, last>>

GlobalOnDragEnd ==
    /\ Ready
    /\ \E draggableId \in {paddlers[i].id : i \in DOMAIN paddlers},
          destination \in Droppables :
       \E source \in GlobalCards(draggableId) :
          BeginGlobal([handler |-> "onDragEnd", draggableId |-> draggableId,
                       source |-> source, destination |-> destination,
                       existingPaddlerId |->
                           IF destination.kind = "seat"
                           THEN FirstEntry(destination.canoeId, destination.seat).paddlerId
                           ELSE Undefined],
                      GlobalOnDragEndCalls(draggableId, source, destination))
    /\ UNCHANGED <<lockedCanoes, canoePriority, events>>

GlobalHandleUnassignAll ==
    /\ Ready
    /\ LET assignedPaddlers ==
               {i \in DOMAIN paddlers :
                   /\ Truthy(paddlers[i].assignedCanoe) /\ Truthy(paddlers[i].assignedSeat)
                   /\ paddlers[i].assignedCanoe \notin lockedCanoes}
       IN BeginGlobal([handler |-> "handleUnassignAll"],
                      IF assignedPaddlers = {} THEN <<>>
                      ELSE << {GlobalUnassignCall(paddlers[i].id, paddlers[i].assignedCanoe,
                                                  paddlers[i].assignedSeat) :
                                  i \in assignedPaddlers} >>)
    /\ UNCHANGED <<lockedCanoes, canoePriority, events>>

GlobalHandleAssign ==
    /\ Ready
    /\ LET neededCanoes == (Len(paddlers) + SeatsPerCanoe - 1) \div SeatsPerCanoe
       IN BeginGlobal([handler |-> "handleAssign"],
                      AddCanoeCalls(neededCanoes)
                      \o << {[op |-> "canoes.assignOptimal", priority |-> canoePriority]} >>)
    /\ UNCHANGED <<lockedCanoes, canoePriority, events>>

\* A mutation of the batch awaited throws: the await rejects and the handler
\* ends there; the other mutation of the batch, already sent, is still carried
\* out.
Throws(call) ==
    CASE call.op = "canoes.assignPaddlerToSeat" ->
            ~PaddlerFound(call.paddlerId) \/ ~CanoeFound(call.canoeId)
      [] call.op = "canoes.unassignPaddler" ->
            ~PaddlerFound(call.paddlerId) \/ ~CanoeFound(call.canoeId)
      [] call.op = "deletePaddler" -> ~PaddlerFound(call.paddlerId)
      [] OTHER -> FALSE

MutationThrows ==
    /\ ui # Idle
    /\ ui.queue # <<>>
    /\ \E call \in Head(ui.queue) :
          /\ Throws(call)
          /\ ui' = [ui EXCEPT !.queue =
                       IF Head(ui.queue) = {call} THEN <<>>
                       ELSE <<Head(ui.queue) \ {call}>>]
    /\ UNCHANGED <<paddlers, canoes, eventAssignments, attendance, lockedCanoes,
                   canoePriority, events, last>>

NextGlobalUI ==
    \/ GlobalOnDragEnd
    \/ GlobalHandleUnassignAll
    \/ GlobalHandleAssign
    \/ ToggleLock
    \/ MutationCompletes
    \/ MutationThrows
    \/ HandlerReturns

SpecGlobalUI == Init /\ [][NextGlobalUI]_vars

(***************************************************************************)
(* Properties, event mode.                                                 *)
(***************************************************************************)
Attending(paddlerId, eventId) ==
    \E r \in Docs(attendance) :
        r.paddlerId = paddlerId /\ r.eventId = eventId /\ r.attending

RowsOfPaddler(table, eventId, paddlerId) ==
    {a \in EventRows(table, eventId) : a.paddlerId = paddlerId}

RowsOfSeat(table, eventId, canoeId, seat) ==
    {a \in EventRows(table, eventId) : a.canoeId = canoeId /\ a.seat = seat}

\* C1: seat exclusivity, event mode.  Under every interleaving of the atomic
\* mutations, with any arguments, no two eventAssignments rows of an event
\* share (canoeId, seat) and no paddlerId appears in two rows of an event.
C1_SeatExclusivityEvent ==
    /\ \A a \in Docs(eventAssignments) : eventAssignments[a] = 1
    /\ \A a, b \in Docs(eventAssignments) :
          a # b /\ a.eventId = b.eventId =>
             /\ ~(a.canoeId = b.canoeId /\ a.seat = b.seat)
             /\ a.paddlerId # b.paddlerId

\* An optimal fill has just seated two paddlers of the first event in one
\* canoe, while the first paddler also holds a seat in another event.
C1_Witness ==
    /\ last.op = "assignOptimalForEvent"
    /\ last.eventId = 1
    /\ last.excludeCanoeIds = {}
    /\ \E a, b \in EventRows(eventAssignments, 1) :
          /\ a # b /\ a.canoeId = b.canoeId /\ a.paddlerId = 1
          /\ Attending(a.paddlerId, 1) /\ Attending(b.paddlerId, 1)
    /\ RowsOfPaddler(eventAssignments, 2, 1) # {}

\* C6: lock exclusion, event mode.  A call assignOptimalForEvent(E, priority,
\* X), with either value of onlyReassignExisting, leaves every row of E whose
\* canoe is in X unchanged, inserts no row of E in a canoe of X, and seats no
\* paddler who already holds a seat of E in a canoe of X.
C6_LockExclusionEvent ==
    [][ (last.op = "none" /\ last'.op = "assignOptimalForEvent") =>
          LET E == last'.eventId
              X == last'.excludeCanoeIds
          IN  /\ \A a \in Docs(eventAssignments) \cup Docs(eventAssignments') :
                    a.eventId = E /\ a.canoeId \in X =>
                       Copies(eventAssignments', a) = Copies(eventAssignments, a)
              /\ \A a \in EventRows(eventAssignments', E) :
                    a.canoeId \notin X =>
                       \A b \in EventRows(eventAssignments, E) :
                          b.canoeId \in X => b.paddlerId # a.paddlerId
      ]_vars

\* A fill that excluded the first canoe has run with an attending paddler
\* seated there, and has seated somebody else in the other canoe.
C6_Witness ==
    /\ last.op = "assignOptimalForEvent"
    /\ last.eventId = 1
    /\ last.excludeCanoeIds = {1}
    /\ \E a, b \in EventRows(eventAssignments, 1) :
          /\ a.canoeId = 1 /\ Attending(a.paddlerId, 1)
          /\ b.canoeId = 2 /\ Attending(b.paddlerId, 1)

(***************************************************************************)
(* Properties of the event-mode page.                                      *)
(***************************************************************************)
\* The gesture in progress passed the guards of onDragEnd and drags a seated
\* paddler onto another seat.
SeatToSeatDrag ==
    /\ ui.handler = "onDragEnd"
    /\ ui.destination.kind = "seat"
    /\ ui.currentAssignment # NoRow
    /\ SourceOf(ui.currentAssignment) # ui.destination
    /\ ui.currentAssignment.canoeId \notin lockedCanoes
    /\ ui.destination.canoeId \notin lockedCanoes

\* ... and the destination seat is held by another paddler.
SwapDrag ==
    /\ SeatToSeatDrag
    /\ ui.existingAssignment # NoRow
    /\ ui.existingAssignment.paddlerId # ui.draggableId

\* C3: swap, event mode.  A seated at (c1, s1), B seated at (c2, s2), both
\* canoes unlocked; after A is dropped on (c2, s2) and the handler returns, A
\* holds exactly (c2, s2) and B exactly (c1, s1), in either order of the two
\* concurrent mutations for B, and no other row changed.
C3_SwapEvent ==
    (SwapDrag /\ ui.queue = <<>>) =>
        LET A == ui.draggableId
            B == ui.existingAssignment.paddlerId
            c1 == ui.currentAssignment.canoeId
            s1 == ui.currentAssignment.seat
            c2 == ui.destination.canoeId
            s2 == ui.destination.seat
        IN  /\ RowsOfPaddler(eventAssignments, SelectedEvent, A)
                  = {AssignmentRow(SelectedEvent, c2, s2, A)}
            /\ RowsOfPaddler(eventAssignments, SelectedEvent, B)
                  = {AssignmentRow(SelectedEvent, c1, s1, B)}
            /\ \A a \in Docs(eventAssignments) \cup Docs(ui.before) :
                  /\ Copies(eventAssignments, a) <= 1
                  /\ (a.eventId # SelectedEvent \/ a.paddlerId \notin {A, B}) =>
                        Copies(eventAssignments, a) = Copies(ui.before, a)

\* A swap between the two canoes has completed with a third paddler seated.
C3_Witness ==
    /\ SwapDrag
    /\ ui.queue = <<>>
    /\ ui.currentAssignment.canoeId # ui.destination.canoeId
    /\ \E a \in EventRows(eventAssignments, SelectedEvent) :
          a.paddlerId \notin {ui.draggableId, ui.existingAssignment.paddlerId}

\* C4: during a swap or a relocation neither the dragged paddler nor the
\* displaced occupant is ever persisted as unassigned.
C4_NeverUnassigned ==
    SeatToSeatDrag =>
        /\ RowsOfPaddler(eventAssignments, SelectedEvent, ui.draggableId) # {}
        /\ SwapDrag =>
              RowsOfPaddler(eventAssignments, SelectedEvent,
                            ui.existingAssignment.paddlerId) # {}

\* C8: attendance cascade.  After handleToggleAttendance on a paddler who was
\* attending and seated, the seat is empty and the paddler has no row.
C8_ToggleCascade ==
    (/\ ui.handler = "handleToggleAttendance"
     /\ ui.queue = <<>>
     /\ ui.wasAttending
     /\ ui.assignment # NoRow) =>
        /\ RowsOfPaddler(eventAssignments, SelectedEvent, ui.paddlerId) = {}
        /\ RowsOfSeat(eventAssignments, SelectedEvent, ui.assignment.canoeId,
                      ui.assignment.seat) = {}
        /\ ~Attending(ui.paddlerId, SelectedEvent)

\* The handler has returned after toggling off a seated attending paddler
\* while another paddler kept a seat.
C8_Witness ==
    /\ ui.handler = "handleToggleAttendance"
    /\ ui.queue = <<>>
    /\ ui.wasAttending
    /\ ui.assignment # NoRow
    /\ EventRows(eventAssignments, SelectedEvent) # {}

\* C9: in every quiescent state every seated paddler of the event is
\* attending, whichever path changed attendance.
C9_SeatedImpliesAttending ==
    Ready =>
        \A a \in EventRows(eventAssignments, SelectedEvent) :
            Attending(a.paddlerId, SelectedEvent)

\* C10: after the fill (here started by handleReassignCanoes, which passes
\* onlyReassignExisting = true) every row of the event in a non-excluded canoe
\* references an attending paddler.
C10_FillSeatsOnlyAttending ==
    (ui.handler = "handleReassignCanoes" /\ ui.queue = <<>>) =>
        \A a \in EventRows(eventAssignments, SelectedEvent) :
            a.canoeId \notin lockedCanoes => Attending(a.paddlerId, SelectedEvent)

(***************************************************************************)
(* Properties, global mode.                                                *)
(***************************************************************************)
\* The {canoe, seat} pairs in which the canoes' lists name the paddler.
SeatsNaming(paddlerId) ==
    {cs \in CanoeIds \X (1..SeatsPerCanoe) :
        \E i \in DOMAIN canoes :
            /\ canoes[i].id = cs[1]
            /\ \E k \in DOMAIN canoes[i].assignments :
                  /\ canoes[i].assignments[k].seat = cs[2]
                  /\ canoes[i].assignments[k].paddlerId = paddlerId}

SeatOncePerCanoe ==
    \A i \in DOMAIN canoes :
        \A j, k \in DOMAIN canoes[i].assignments :
            j # k => canoes[i].assignments[j].seat # canoes[i].assignments[k].seat

\* C2: seat exclusivity, global mode.  In every state reachable by the
\* mutations assignPaddlerToSeat, unassignPaddler, assignOptimal, deletePaddler
\* and removeCanoe, each canoe's list holds each seat number at most once and
\* each paddlerId appears in at most one {canoe, seat} pair across all canoes.
C2_SeatExclusivityGlobal ==
    /\ SeatOncePerCanoe
    /\ \A paddlerId \in PaddlerIds : Cardinality(SeatsNaming(paddlerId)) <= 1

\* C5: in every persisted state during and after a drag gesture no two
\* paddlers are recorded on the same (canoe, seat): not as two entries of one
\* seat, and not as two paddlers whose assignedCanoe/assignedSeat name one seat.
C5_NoSharedSeat ==
    /\ SeatOncePerCanoe
    /\ \A i, j \in DOMAIN paddlers :
          (/\ i # j
           /\ Truthy(paddlers[i].assignedCanoe)
           /\ Truthy(paddlers[i].assignedSeat)) =>
              ~(/\ paddlers[i].assignedCanoe = paddlers[j].assignedCanoe
                /\ paddlers[i].assignedSeat = paddlers[j].assignedSeat)

\* C7: lock exclusion, global mode.  When the Assign action has run its
\* optimal fill while canoe X is locked, X's assignments list and the
\* assignedCanoe/assignedSeat fields of X's occupants are as they were.
C7_LockExclusionGlobal ==
    (ui.handler = "handleAssign" /\ ui.queue = <<>>) =>
        \A X \in lockedCanoes :
            \A i \in DOMAIN ui.before.canoes :
                ui.before.canoes[i].id = X =>
                    /\ \E j \in DOMAIN canoes :
                          /\ canoes[j].id = X
                          /\ canoes[j].assignments = ui.before.canoes[i].assignments
                    /\ \A k \in DOMAIN ui.before.canoes[i].assignments :
                          \A q \in DOMAIN ui.before.paddlers :
                             ui.before.paddlers[q].id
                                   = ui.before.canoes[i].assignments[k].paddlerId =>
                                \E r \in DOMAIN paddlers : paddlers[r] = ui.before.paddlers[q]

(***************************************************************************)
(* A crew large enough to fill a canoe.  The same mutations of canoes.ts   *)
(* and paddlers.ts, called directly, on a roster of CrewSize paddlers; a   *)
(* canoe removed can be added again.                                       *)
(***************************************************************************)
CrewSize == 7

InitCrew ==
    /\ paddlers = [i \in 1..CrewSize |-> PaddlerDoc(i)]
    /\ canoes = [i \in 1..NumCanoes |-> CanoeDoc(i)]
    /\ eventAssignments = EmptyTable
    /\ attendance = EmptyTable
    /\ events = <<>>
    /\ lockedCanoes = {}
    /\ canoePriority = CANOE_SORT_OPTIONS
    /\ ui = Idle
    /\ last = NoCall

CallAddCanoe ==
    /\ Len(canoes) < NumCanoes
    /\ AddCanoe
    /\ Client

\* The paddlers moved by hand, and the paddler deleted.
Movers == {1}

CrewAssign ==
    /\ \E paddlerId \in Movers, canoeId \in CanoeIds, seat \in SeatArgs :
       \E old \in OldArgs(paddlerId) :
          CanoesAssignPaddlerToSeat(paddlerId, canoeId, seat, old[1], old[2])
    /\ Client

CrewUnassign ==
    /\ \E paddlerId \in Movers, canoeId \in CanoeIds, seat \in SeatArgs :
          CanoesUnassignPaddler(paddlerId, canoeId, seat)
    /\ Client

CrewFill ==
    /\ \E priority \in {<<>>, CANOE_SORT_OPTIONS} : AssignOptimal(priority)
    /\ Client

CrewDelete ==
    /\ DeletePaddler(CrewSize)
    /\ Client

NextCapacity ==
    \/ CrewAssign
    \/ CrewUnassign
    \/ CrewFill
    \/ CrewDelete
    \/ CallRemoveCanoe
    \/ CallAddCanoe

SpecCapacity == InitCrew /\ [][NextCapacity]_vars

\* C11: capacity and status, global mode.  In every reachable state each
\* canoe's assignments list has between 0 and 6 entries, and the canoe's
\* status is "full" exactly when the list has 6 entries.
C11_CapacityAndStatus ==
    \A i \in DOMAIN canoes :
        /\ Len(canoes[i].assignments) <= SeatsPerCanoe
        /\ (canoes[i].status = "full") <=> (Len(canoes[i].assignments) = SeatsPerCanoe)

(***************************************************************************)
(* The two optimal fills on the crew.  Paddlers are marked attending in    *)
(* roster order and the first may be marked absent again; last is the fill *)
(* carried out by the latest step, and last.again tells that the step      *)
(* before it was the same call.                                            *)
(***************************************************************************)
FillPriorities == {<<>>, <<"gender", "type", "seatPreference", "ability">>}

Repeats(call) == last # NoCall /\ [last EXCEPT !.again = FALSE] = call

Record(call) == last' = [call EXCEPT !.again = Repeats(call)]

FillEvent ==
    /\ \E priority \in FillPriorities, excludeCanoeIds \in {{}, {1}},
          onlyReassignExisting \in BOOLEAN :
          /\ AssignOptimalForEvent(SelectedEvent, priority, excludeCanoeIds,
                                   onlyReassignExisting)
          /\ Record([op |-> "assignOptimalForEvent", priority |-> priority,
                     excludeCanoeIds |-> excludeCanoeIds,
                     onlyReassignExisting |-> onlyReassignExisting, again |-> FALSE])
    /\ UNCHANGED <<lockedCanoes, canoePriority, events, ui>>

FillGlobal ==
    /\ \E priority \in FillPriorities :
          /\ AssignOptimal(priority)
          /\ Record([op |-> "assignOptimal", priority |-> priority, again |-> FALSE])
    /\ UNCHANGED <<lockedCanoes, canoePriority, events, ui>>

NextToAttend ==
    {i \in 1..CrewSize :
        /\ AttendanceOf(i, SelectedEvent) = {}
        /\ \A j \in 1..(i - 1) : AttendanceOf(j, SelectedEvent) # {}}

CrewAttends ==
    /\ \E paddlerId \in NextToAttend : SetAttendance(paddlerId, SelectedEvent, TRUE)
    /\ last' = NoCall
    /\ UNCHANGED <<lockedCanoes, canoePriority, events, ui>>

FleetShrinks ==
    /\ RemoveCanoe(NumCanoes)
    /\ last' = NoCall
    /\ UNCHANGED <<lockedCanoes, canoePriority, events, ui>>

NextFill ==
    \/ FillEvent
    \/ FillGlobal
    \/ CrewAttends
    \/ FleetShrinks

SpecFill == InitCrew /\ [][NextFill]_vars

\* canoes.filter(c => !excludeSet.has(c.id)), the canoes the fill loop visits.
NonExcluded(list, excludeSet) == SelectSeq(list, LAMBDA c : c.id \notin excludeSet)

\* The number of the event's rows in a canoe.
CrewOf(table, eventId, canoeId) ==
    RowCount(table, {a \in EventRows(table, eventId) : a.canoeId = canoeId})

\* C12: a step of assignOptimalForEvent leaves the paddler at 0-based rank i
\* of the sorted pool in seat (i mod 6) + 1 of the floor(i/6)-th non-excluded
\* canoe of the canoe list, for every i below 6 times the number of
\* non-excluded canoes, and a non-excluded canoe holds a paddler after the
\* call only when every earlier non-excluded canoe holds six.
C12_SequentialFill ==
    [][(last'.op = "assignOptimalForEvent") =>
          LET X == last'.excludeCanoeIds
              sorted == SortPaddlers(FillPool(SelectedEvent, X, last'.onlyReassignExisting),
                                     last'.priority)
              open == NonExcluded(canoes, X)
          IN /\ \A i \in 0..(Len(sorted) - 1) :
                    i < SeatsPerCanoe * Len(open) =>
                       /\ Copies(eventAssignments',
                                 AssignmentRow(SelectedEvent, open[(i \div SeatsPerCanoe) + 1].id,
                                               (i % SeatsPerCanoe) + 1, sorted[i + 1].id)) = 1
                       /\ RowCount(eventAssignments',
                                   RowsOfSeat(eventAssignments', SelectedEvent,
                                              open[(i \div SeatsPerCanoe) + 1].id,
                                              (i % SeatsPerCanoe) + 1)) = 1
             /\ \A k \in DOMAIN open : \A j \in 1..(k - 1) :
                    CrewOf(eventAssignments', SelectedEvent, open[k].id) > 0 =>
                       CrewOf(eventAssignments', SelectedEvent, open[j].id) = SeatsPerCanoe
      ]_vars

\* A fill of both canoes by seven attending paddlers: the first canoe holds
\* six of them and the seventh sits in seat 1 of the second.
C12_Witness ==
    /\ last.op = "assignOptimalForEvent"
    /\ last.excludeCanoeIds = {}
    /\ ~last.onlyReassignExisting
    /\ Len(canoes) = 2
    /\ CrewOf(eventAssignments, SelectedEvent, canoes[1].id) = SeatsPerCanoe
    /\ CrewOf(eventAssignments, SelectedEvent, canoes[2].id) = 1
    /\ RowsOfSeat(eventAssignments, SelectedEvent, canoes[2].id, 1) # {}

\* The entries of a canoe's list that name a seat.
EntriesAt(canoe, seat) ==
    {k \in DOMAIN canoe.assignments : canoe.assignments[k].seat = seat}

\* C13: after assignOptimal on k >= 1 canoes the paddler at 0-based rank i of
\* the sorted roster is the one entry of seat floor(i/k) + 1 in the
\* (i mod k)-th canoe and the paddler's fields name that seat, for every
\* i < 6k; a canoe has seat n + 1 filled only if every canoe has seat n filled.
C13_RoundRobinFill ==
    (last.op = "assignOptimal") =>
        LET sorted == SortPaddlers(paddlers, last.priority)
            k == Len(canoes)
        IN /\ k >= 1
           /\ \A i \in 0..(Len(sorted) - 1) :
                  i < SeatsPerCanoe * k =>
                     LET canoe == canoes[(i % k) + 1]
                         seat == (i \div k) + 1
                     IN /\ Cardinality(EntriesAt(canoe, seat)) = 1
                        /\ \A e \in EntriesAt(canoe, seat) :
                              canoe.assignments[e].paddlerId = sorted[i + 1].id
                        /\ sorted[i + 1].assignedCanoe = canoe.id
                        /\ sorted[i + 1].assignedSeat = seat
           /\ \A n \in 1..(SeatsPerCanoe - 1) :
                  (\E c \in DOMAIN canoes : EntriesAt(canoes[c], n + 1) # {}) =>
                     \A c \in DOMAIN canoes : EntriesAt(canoes[c], n) # {}

\* Seven paddlers dealt to two canoes: seats 1..4 of the first canoe and
\* seats 1..3 of the second are filled.
C13_Witness ==
    /\ last.op = "assignOptimal"
    /\ Len(canoes) = 2
    /\ Len(canoes[1].assignments) = 4
    /\ Len(canoes[2].assignments) = 3
    /\ EntriesAt(canoes[1], 4) # {}

\* C14: with paddlers, canoes, attendance, priority and the locked set held
\* fixed, the second of two consecutive invocations of the optimal fill
\* (assignOptimal in global mode, assignOptimalForEvent in event mode) leaves
\* the assignments the first one left.
C14_FillTwice ==
    [][(last'.op # "none" /\ last'.again) =>
          /\ eventAssignments' = eventAssignments
          /\ canoes' = canoes
          /\ paddlers' = paddlers
      ]_vars

\* The event fill repeated with the same arguments, seven paddlers seated.
C14_Witness ==
    /\ last.op = "assignOptimalForEvent"
    /\ last.again
    /\ last.excludeCanoeIds = {}
    /\ Len(canoes) = 2
    /\ RowCount(eventAssignments, EventRows(eventAssignments, SelectedEvent)) = CrewSize

(***************************************************************************)
(* Both stores side by side: the seat mutations of eventAssignments.ts and *)
(* of canoes.ts, deletePaddler and removeCanoe called directly in any      *)
(* order.  A call that throws changes nothing.  last is the unassignPaddler*)
(* call carried out by the latest step; last.again tells that the step     *)
(* before it was the same call.                                            *)
(***************************************************************************)
StorePaddlers == {1}

StoreCrew == 1..2

\* The paddler holds the seat: the canoe's list has the entry (global mode),
\* the event has the row (event mode).
HoldsSeat(paddlerId, canoeId, seat) ==
    \E i \in DOMAIN canoes :
        /\ canoes[i].id = canoeId
        /\ \E k \in DOMAIN canoes[i].assignments :
              canoes[i].assignments[k] = Entry(seat, paddlerId)

HoldsSeatOfEvent(eventId, paddlerId, canoeId, seat) ==
    AssignmentRow(eventId, canoeId, seat, paddlerId) \in Docs(eventAssignments)

StoreRepeats(call) ==
    /\ last.op = call.op
    /\ last.paddlerId = call.paddlerId
    /\ last.canoeId = call.canoeId
    /\ last.seat = call.seat

\* held: the paddler held the seat when the call was first made.
StoreRecord(call, held) ==
    last' = [op |-> call.op, paddlerId |-> call.paddlerId, canoeId |-> call.canoeId,
             seat |-> call.seat, again |-> StoreRepeats(call),
             held |-> IF StoreRepeats(call) THEN last.held ELSE held]

StoreAssignEvent ==
    /\ \E paddlerId \in StoreCrew, canoeId \in CanoeIds, seat \in SeatArgs :
          AssignPaddlerToSeat(SelectedEvent, paddlerId, canoeId, seat)
    /\ last' = NoCall
    /\ UNCHANGED <<lockedCanoes, canoePriority, events, ui>>

StoreUnassignEvent ==
    /\ \E paddlerId \in StorePaddlers, canoeId \in CanoeIds, seat \in SeatArgs :
          /\ UnassignPaddler(SelectedEvent, paddlerId, canoeId, seat)
          /\ StoreRecord([op |-> "eventAssignments.unassignPaddler",
                          paddlerId |-> paddlerId, canoeId |-> canoeId, seat |-> seat],
                         HoldsSeatOfEvent(SelectedEvent, paddlerId, canoeId, seat))
    /\ UNCHANGED <<lockedCanoes, canoePriority, events, ui>>

StoreAssignGlobal ==
    /\ \E paddlerId \in StorePaddlers, canoeId \in CanoeIds, seat \in SeatArgs :
       \E old \in OldArgs(paddlerId) :
          CanoesAssignPaddlerToSeat(paddlerId, canoeId, seat, old[1], old[2])
    /\ last' = NoCall
    /\ UNCHANGED <<lockedCanoes, canoePriority, events, ui>>

StoreUnassignGlobal ==
    /\ \E paddlerId \in StorePaddlers, canoeId \in CanoeIds, seat \in SeatArgs :
          /\ CanoesUnassignPaddler(paddlerId, canoeId, seat)
          /\ StoreRecord([op |-> "canoes.unassignPaddler", paddlerId |-> paddlerId,
                          canoeId |-> canoeId, seat |-> seat],
                         HoldsSeat(paddlerId, canoeId, seat))
    /\ UNCHANGED <<lockedCanoes, canoePriority, events, ui>>

StoreDeletePaddler ==
    /\ \E paddlerId \in StorePaddlers :
          /\ DeletePaddler(paddlerId)
          /\ last' = [op |-> "deletePaddler", paddlerId |-> paddlerId]
    /\ UNCHANGED <<lockedCanoes, canoePriority, events, ui>>

StoreRemoveCanoe ==
    /\ \E canoeId \in CanoeIds : RemoveCanoe(canoeId)
    /\ last' = NoCall
    /\ UNCHANGED <<lockedCanoes, canoePriority, events, ui>>

NextStore ==
    \/ StoreAssignEvent
    \/ StoreUnassignEvent
    \/ StoreAssignGlobal
    \/ StoreUnassignGlobal
    \/ StoreDeletePaddler
    \/ StoreRemoveCanoe

SpecStore == Init /\ [][NextStore]_vars

\* C15: unassignPaddler(p, c, s) called when p does not hold seat s of canoe
\* c changes nothing: no assignment list or row, no canoe status and no
\* assignedCanoe/assignedSeat field of a paddler (global and event mode).
C15_UnassignUnheldSeat ==
    [][/\ (/\ last'.op = "canoes.unassignPaddler"
           /\ ~HoldsSeat(last'.paddlerId, last'.canoeId, last'.seat)) =>
              UNCHANGED <<paddlers, canoes, eventAssignments>>
       /\ (/\ last'.op = "eventAssignments.unassignPaddler"
           /\ ~HoldsSeatOfEvent(SelectedEvent, last'.paddlerId, last'.canoeId, last'.seat)) =>
              UNCHANGED <<paddlers, canoes, eventAssignments>>
      ]_vars

\* C16: executing unassignPaddler(p, c, s) twice in a row yields the state
\* that executing it once yields: the second of two consecutive equal calls
\* changes no table (global and event mode).
C16_UnassignTwice ==
    [][(/\ last'.op \in {"canoes.unassignPaddler", "eventAssignments.unassignPaddler"}
        /\ last'.again) =>
           UNCHANGED <<paddlers, canoes, eventAssignments, attendance>>
      ]_vars

\* The global unassignPaddler repeated after a first call that took the
\* paddler out of the seat held.
C16_Witness ==
    /\ last.op = "canoes.unassignPaddler"
    /\ last.again
    /\ last.held
    /\ ~HoldsSeat(last.paddlerId, last.canoeId, last.seat)

\* C17: after deletePaddler(p) succeeds no seat references p: no canoe's
\* assignments list has an entry of p and no eventAssignments row of any
\* event has paddlerId p.
C17_DeleteEvictsSeats ==
    (last.op = "deletePaddler") =>
        /\ \A i \in DOMAIN canoes : \A k \in DOMAIN canoes[i].assignments :
              canoes[i].assignments[k].paddlerId # last.paddlerId
        /\ \A a \in Docs(eventAssignments) : a.paddlerId # last.paddlerId

\* C18: an assign or unassign mutation that names a paddler or canoe id with
\* no matching record fails and leaves the store unchanged (global and event
\* mode): no step is such a call that changes a table.
C18_MissingRecordRejected ==
    [][\A paddlerId \in StoreCrew, canoeId \in CanoeIds, seat \in SeatArgs :
          (~PaddlerFound(paddlerId) \/ ~CanoeFound(canoeId)) =>
             /\ AssignPaddlerToSeat(SelectedEvent, paddlerId, canoeId, seat) =>
                   UNCHANGED eventAssignments
             /\ UnassignPaddler(SelectedEvent, paddlerId, canoeId, seat) =>
                   UNCHANGED eventAssignments
             /\ \A old \in OldArgs(paddlerId) :
                   CanoesAssignPaddlerToSeat(paddlerId, canoeId, seat, old[1], old[2]) =>
                      UNCHANGED <<paddlers, canoes>>
             /\ CanoesUnassignPaddler(paddlerId, canoeId, seat) =>
                   UNCHANGED <<paddlers, canoes>>
      ]_vars

\* C19: a drag whose destination is a seat of a locked canoe, or whose
\* dragged paddler sits in a locked canoe and is dropped on a seat, issues no
\* mutation and leaves all assignments unchanged.
C19_LockedDragRejected ==
    (/\ ui.handler = "onDragEnd"
     /\ ui.destination.kind = "seat"
     /\ \/ ui.destination.canoeId \in lockedCanoes
        \/ (ui.source.kind = "seat" /\ ui.source.canoeId \in lockedCanoes)) =>
        /\ ui.queue = <<>>
        /\ paddlers = ui.before.paddlers
        /\ canoes = ui.before.canoes

\* C20: the staging rule is decided before the lock rule: once the drag of a
\* paddler who occupies a seat onto the staging zone has been handled, the
\* paddler is unassigned from that seat, whatever canoe the seat is in.
C20_StagingBeforeLock ==
    (/\ ui.handler = "onDragEnd"
     /\ ui.destination = Staging
     /\ ui.currentAssignment # NoRow
     /\ ui.queue = <<>>) =>
        ui.currentAssignment \notin Docs(eventAssignments)

(***************************************************************************)
(* The seat argument of the two assignPaddlerToSeat mutations is           *)
(* v.number(): any number a caller passes.  The calls below pass a         *)
(* negative number, the first and the last seat of a canoe, and the number *)
(* after the last.                                                         *)
(***************************************************************************)
SeatNumbers == {-1, 1, SeatsPerCanoe, SeatsPerCanoe + 1}

NumberedAssignEvent ==
    /\ \E paddlerId \in StoreCrew, canoeId \in CanoeIds, seat \in SeatNumbers :
          AssignPaddlerToSeat(SelectedEvent, paddlerId, canoeId, seat)
    /\ Client

NumberedAssignGlobal ==
    /\ \E paddlerId \in StorePaddlers, seat \in SeatNumbers :
       \E old \in OldArgs(paddlerId) :
          CanoesAssignPaddlerToSeat(paddlerId, 1, seat, old[1], old[2])
    /\ Client

NextSeatNumbers ==
    \/ NumberedAssignEvent
    \/ NumberedAssignGlobal

SpecSeatNumbers == Init /\ [][NextSeatNumbers]_vars

\* C21: an assignment whose seat number is outside 1..6 is rejected as a
\* no-op: no state reached through the assignPaddlerToSeat mutations holds
\* an eventAssignments row or a canoe list entry with a seat below 1 or
\* above 6.
C21_SeatsInRange ==
    /\ \A a \in Docs(eventAssignments) : a.seat \in 1..SeatsPerCanoe
    /\ \A i \in DOMAIN canoes : \A k \in DOMAIN canoes[i].assignments :
          canoes[i].assignments[k].seat \in 1..SeatsPerCanoe

\* The ids of the first n elements of a sorted list, and of the others.
FirstIds(sorted, n) == {sorted[i].id : i \in 1..(IF n < Len(sorted) THEN n ELSE Len(sorted))}

RestIds(sorted, n) == {sorted[i].id : i \in (n + 1)..Len(sorted)}

\* The paddlers named by a canoe list.
ListedIds ==
    UNION {{canoes[i].assignments[k].paddlerId : k \in DOMAIN canoes[i].assignments} :
              i \in DOMAIN canoes}

\* C22: when the pool has more paddlers than 6 times the number k of
\* non-excluded canoes, a step of the optimal fill seats exactly the first
\* 6k paddlers of the sorted order and leaves every other paddler of the pool
\* with no assignment (event mode: no row; global mode: no list entry and
\* unset fields).
C22_ExcessStaysUnassigned ==
    [][/\ (last'.op = "assignOptimalForEvent") =>
             LET X == last'.excludeCanoeIds
                 sorted == SortPaddlers(FillPool(SelectedEvent, X, last'.onlyReassignExisting),
                                        last'.priority)
                 seats == SeatsPerCanoe * Len(NonExcluded(canoes, X))
             IN Len(sorted) > seats =>
                   /\ {a.paddlerId : a \in {r \in EventRows(eventAssignments', SelectedEvent) :
                                               r.canoeId \notin X}}
                         = FirstIds(sorted, seats)
                   /\ \A a \in EventRows(eventAssignments', SelectedEvent) :
                         a.paddlerId \notin RestIds(sorted, seats)
       /\ (last'.op = "assignOptimal") =>
             LET sorted == SortPaddlers(paddlers, last'.priority)
                 seats == SeatsPerCanoe * Len(canoes)
             IN Len(sorted) > seats =>
                   /\ ListedIds' = FirstIds(sorted, seats)
                   /\ \A i \in DOMAIN paddlers' :
                         (Truthy(paddlers'[i].assignedCanoe) \/ Truthy(paddlers'[i].assignedSeat))
                            <=> paddlers'[i].id \in FirstIds(sorted, seats)
      ]_vars

\* Seven attending paddlers filled into the one canoe that is not excluded:
\* six rows in it, one attending paddler without a row.
C22_Witness ==
    /\ last.op = "assignOptimalForEvent"
    /\ last.excludeCanoeIds = {1}
    /\ ~last.onlyReassignExisting
    /\ Len(canoes) = 2
    /\ Cardinality(eventAttendingPaddlerIds) = CrewSize
    /\ CrewOf(eventAssignments, SelectedEvent, 2) = SeatsPerCanoe
    /\ \E p \in eventAttendingPaddlerIds :
          RowsOfPaddler(eventAssignments, SelectedEvent, p) = {}

(***************************************************************************)
(* The sort of the optimal fill on its own.  The pool is any list of       *)
(* SortLen paddlers with any of the profiles below; one step sorts it      *)
(* under a priority and keeps the result in last.                          *)
(***************************************************************************)
SortLen == 3

SortAbilities == {2, 4}

SortPreferences == { <<>>, <<0, 0, 0, 0, 0, 0>>, <<3, 0, 0, 0, 0, 0>>, <<0, 6, 1, 0, 0, 0>> }

Profiles ==
    [ability : SortAbilities, gender : {"kane", "wahine"},
     type : {"racer", "casual", "very-casual"}, seatPreference : SortPreferences]

ProfiledPaddler(i, profile) ==
    [id |-> i, ability |-> profile.ability, gender |-> profile.gender,
     type |-> profile.type, seatPreference |-> profile.seatPreference,
     assignedCanoe |-> Undefined, assignedSeat |-> Undefined]

InitSort ==
    /\ \E pool \in [1..SortLen -> Profiles] :
          paddlers = [i \in 1..SortLen |-> ProfiledPaddler(i, pool[i])]
    /\ canoes = [i \in 1..NumCanoes |-> CanoeDoc(i)]
    /\ eventAssignments = EmptyTable
    /\ attendance = EmptyTable
    /\ events = <<>>
    /\ lockedCanoes = {}
    /\ canoePriority = CANOE_SORT_OPTIONS
    /\ ui = Idle
    /\ last = NoCall

SortPriorities ==
    { <<>>,
      <<"type">>,
      <<"ability", "gender">>,
      <<"gender", "type", "seatPreference", "ability">>,
      <<"seatPreference", "type", "ability", "gender">> }

SortStep ==
    /\ last = NoCall
    /\ \E priority \in SortPriorities :
          last' = [op |-> "sort", priority |-> priority,
                   sorted |-> SortPaddlers(paddlers, priority)]
    /\ UNCHANGED <<paddlers, canoes, eventAssignments, attendance, lockedCanoes,
                   canoePriority, events, ui>>

NextSort == SortStep

SpecSort == InitSort /\ [][NextSort]_vars

\* The place of a paddler in the pool handed to the sort.
InputIndex(a) == CHOOSE i \in DOMAIN paddlers : paddlers[i].id = a.id

\* The criteria of the priority, by position, on which two paddlers differ.
Differing(priority, a, b) == {k \in DOMAIN priority : Criterion(priority[k], a, b) # 0}

\* a goes before b under the chained comparator: a ranks first at the first
\* criterion on which they differ, or they differ on none and a came first.
ChainedBefore(priority, a, b) ==
    LET differing == Differing(priority, a, b)
    IN IF differing = {} THEN InputIndex(a) < InputIndex(b)
       ELSE LET k == CHOOSE k \in differing : \A j \in differing : k <= j
            IN Criterion(priority[k], a, b) < 0

IsPermutation(sorted) ==
    /\ Len(sorted) = Len(paddlers)
    /\ \A i \in DOMAIN paddlers : \E j \in DOMAIN sorted : sorted[j] = paddlers[i]

\* C23 as stated: under every priority the fill accepts, the empty one
\* included, the order used is the stable sort under the chained comparator.
C23_ChainedUnderAnyPriority ==
    (last.op = "sort") =>
        /\ IsPermutation(last.sorted)
        /\ \A i, j \in DOMAIN last.sorted :
              i < j => ChainedBefore(last.priority, last.sorted[i], last.sorted[j])

\* C23, amended: under a priority of at least one criterion the order used
\* by the optimal fill is the stable sort of the pool under the chained
\* comparator (a precedes b when a ranks first at the first criterion, in
\* priority order, on which they differ; paddlers equal on every criterion
\* keep their input order); under an empty priority it is the stable sort by
\* descending ability.
C23_StableChainedSort ==
    (last.op = "sort") =>
        /\ IsPermutation(last.sorted)
        /\ \A i, j \in DOMAIN last.sorted :
              i < j => ChainedBefore(IF last.priority = <<>> THEN <<"ability">>
                                     ELSE last.priority,
                                     last.sorted[i], last.sorted[j])

\* A sort under [ability, gender] of a pool in which the second and third
\* paddler tie on both and the first, of lower ability, goes behind them.
C23_Witness ==
    /\ last.op = "sort"
    /\ last.priority = <<"ability", "gender">>
    /\ Differing(last.priority, paddlers[2], paddlers[3]) = {}
    /\ paddlers[2].type # paddlers[3].type
    /\ paddlers[1].ability < paddlers[2].ability
    /\ last.sorted = <<paddlers[2], paddlers[3], paddlers[1]>>

\* The digits of a seatPreference that name a seat, by position.
SeatDigits(pref) == {k \in DOMAIN pref : pref[k] \in 1..SeatsPerCanoe}

\* The first digit of seatPreference that lies in 1..6, 999 without one.
PreferenceKey(paddler) ==
    LET digits == SeatDigits(paddler.seatPreference)
    IN IF digits = {} THEN NoPreference
       ELSE paddler.seatPreference[CHOOSE k \in digits : \A j \in digits : k <= j]

\* C24: under criterion seatPreference a paddler's key is the first digit of
\* seatPreference that lies in 1..6, and 999 when seatPreference is undefined
\* or has no such digit; the smaller key sorts first, so every paddler with a
\* preference precedes every paddler with none.
C24_SeatPreferenceKey ==
    (last.op = "sort" /\ last.priority # <<>> /\ Head(last.priority) = "seatPreference") =>
        \A i, j \in DOMAIN last.sorted :
            LET a == last.sorted[i]
                b == last.sorted[j]
            IN /\ Criterion("seatPreference", a, b) = PreferenceKey(a) - PreferenceKey(b)
               /\ i < j => PreferenceKey(a) <= PreferenceKey(b)
               /\ (SeatDigits(a.seatPreference) # {} /\ SeatDigits(b.seatPreference) = {})
                     => i < j

\* A pool given as (no seatPreference, "061000", "300000") comes out as
\* ("300000", "061000", no seatPreference).
C24_Witness ==
    /\ last.op = "sort"
    /\ last.priority = <<"seatPreference", "type", "ability", "gender">>
    /\ paddlers[1].seatPreference = <<>>
    /\ paddlers[2].seatPreference = <<0, 6, 1, 0, 0, 0>>
    /\ paddlers[3].seatPreference = <<3, 0, 0, 0, 0, 0>>
    /\ last.sorted = <<paddlers[3], paddlers[2], paddlers[1]>>

\* The places the claim gives the labels.
TypeRank(type) == CASE type = "casual" -> 1 [] type = "racer" -> 2 [] type = "very-casual" -> 3

GenderRank(gender) == CASE gender = "kane" -> 1 [] gender = "wahine" -> 2

\* C25: under criterion type paddlers are ordered casual, then racer, then
\* very-casual; under criterion gender kane precedes wahine; under criterion
\* ability a higher ability precedes a lower one.
C25_CriterionOrders ==
    (last.op = "sort" /\ last.priority # <<>>) =>
        \A i, j \in DOMAIN last.sorted :
            LET a == last.sorted[i]
                b == last.sorted[j]
            IN i < j =>
                  /\ Head(last.priority) = "type" => TypeRank(a.type) <= TypeRank(b.type)
                  /\ Head(last.priority) = "gender" =>
                        GenderRank(a.gender) <= GenderRank(b.gender)
                  /\ Head(last.priority) = "ability" => a.ability >= b.ability

\* A pool given as (very-casual, racer, casual) comes out, under type, as
\* (casual, racer, very-casual).
C25_Witness ==
    /\ last.op = "sort"
    /\ last.priority = <<"type">>
    /\ paddlers[1].type = "very-casual"
    /\ paddlers[2].type = "racer"
    /\ paddlers[3].type = "casual"
    /\ last.sorted = <<paddlers[3], paddlers[2], paddlers[1]>>

(***************************************************************************)
(* Attendance on its own: toggleAttendance and setAttendance called in any *)
(* order for any paddler and event, each call a transaction.  last is the  *)
(* call carried out by the latest step; last.existed tells that the pair   *)
(* had a row when the call was made.                                       *)
(***************************************************************************)
HasRow(paddlerId, eventId) ==
    \E r \in Docs(attendance) : r.paddlerId = paddlerId /\ r.eventId = eventId

AttendToggle(paddlerId, eventId) ==
    /\ ToggleAttendance(paddlerId, eventId)
    /\ last' = [op |-> "toggleAttendance", paddlerId |-> paddlerId, eventId |-> eventId,
                existed |-> HasRow(paddlerId, eventId)]
    /\ UNCHANGED <<lockedCanoes, canoePriority, events, ui>>

AttendSet(paddlerId, eventId, attending) ==
    /\ SetAttendance(paddlerId, eventId, attending)
    /\ last' = [op |-> "setAttendance", paddlerId |-> paddlerId, eventId |-> eventId,
                attending |-> attending, existed |-> HasRow(paddlerId, eventId)]
    /\ UNCHANGED <<lockedCanoes, canoePriority, events, ui>>

CallToggle == \E paddlerId \in PaddlerIds, eventId \in Events : AttendToggle(paddlerId, eventId)

CallSet ==
    \E paddlerId \in PaddlerIds, eventId \in Events, attending \in BOOLEAN :
        AttendSet(paddlerId, eventId, attending)

NextAttendance ==
    \/ CallToggle
    \/ CallSet

SpecAttendance == Init /\ [][NextAttendance]_vars

\* The number of attendance rows of a pair.
PairRows(paddlerId, eventId) ==
    RowCount(attendance, {r \in Docs(attendance) :
                             r.paddlerId = paddlerId /\ r.eventId = eventId})

\* C26: in every reachable state, under any interleaving of toggleAttendance
\* and setAttendance calls, there is at most one attendance row per
\* (paddlerId, eventId) pair.
C26_OneRowPerPair ==
    \A paddlerId \in PaddlerIds, eventId \in Events : PairRows(paddlerId, eventId) <= 1

\* A call on a pair that already had a row: the pair still has one row.
C26_Witness ==
    /\ last.op \in {"toggleAttendance", "setAttendance"}
    /\ last.existed
    /\ PairRows(last.paddlerId, last.eventId) = 1

\* The attending values of the rows of a pair.
AttendingValues(table, paddlerId, eventId) ==
    {r.attending : r \in {x \in Docs(table) : x.paddlerId = paddlerId /\ x.eventId = eventId}}

\* C27: for a (paddler, event) pair: with no row the paddler counts as
\* absent; toggleAttendance on a pair with no row creates the row with
\* attending = true and on an existing row negates attending;
\* setAttendance(v) leaves attending = v; no step deletes a row; and in every
\* state setAttendance(true) and setAttendance(false) can be carried out, so
\* Attending and Not Attending stay reachable.
C27_AttendanceLifecycle ==
    /\ [](\A paddlerId \in PaddlerIds, eventId \in Events :
             /\ ~HasRow(paddlerId, eventId) => ~Attending(paddlerId, eventId)
             /\ ENABLED AttendSet(paddlerId, eventId, TRUE)
             /\ ENABLED AttendSet(paddlerId, eventId, FALSE)
             /\ ENABLED AttendToggle(paddlerId, eventId))
    /\ [][/\ (last'.op = "toggleAttendance") =>
                AttendingValues(attendance', last'.paddlerId, last'.eventId) =
                   IF HasRow(last'.paddlerId, last'.eventId)
                   THEN {~v : v \in AttendingValues(attendance, last'.paddlerId,
                                                    last'.eventId)}
                   ELSE {TRUE}
          /\ (last'.op = "setAttendance") =>
                AttendingValues(attendance', last'.paddlerId, last'.eventId) =
                   {last'.attending}
          /\ \A paddlerId \in PaddlerIds, eventId \in Events :
                HasRow(paddlerId, eventId) => HasRow(paddlerId, eventId)'
         ]_vars

\* A row that toggleAttendance has just turned from attending to absent.
C27_Witness ==
    /\ last.op = "toggleAttendance"
    /\ last.existed
    /\ AttendingValues(attendance, last.paddlerId, last.eventId) = {FALSE}

\* C28: global mode: in every reachable state each paddler has assignedCanoe
\* and assignedSeat either both set or both unset.
C28_BothOrNeither ==
    \A i \in DOMAIN paddlers :
        Truthy(paddlers[i].assignedCanoe) <=> Truthy(paddlers[i].assignedSeat)

\* One paddler with both fields set, and another whose fields an
\* unassignPaddler of a seat not held has cleared while a list names them.
C28_Witness ==
    /\ \E i \in DOMAIN paddlers :
          Truthy(paddlers[i].assignedCanoe) /\ Truthy(paddlers[i].assignedSeat)
    /\ \E i \in DOMAIN paddlers :
          /\ ~Truthy(paddlers[i].assignedCanoe)
          /\ ~Truthy(paddlers[i].assignedSeat)
          /\ SeatsNaming(paddlers[i].id) # {}

\* The paddler documents and the canoe lists agree: a paddler's fields name
\* canoe c and seat s exactly when c's list has the entry {seat: s, paddlerId}.
FieldsMatchLists(paddlerDocs, canoeDocs) ==
    \A i \in DOMAIN paddlerDocs :
        \A c \in CanoeIds, s \in 1..SeatsPerCanoe :
            (paddlerDocs[i].assignedCanoe = c /\ paddlerDocs[i].assignedSeat = s)
               <=> \E j \in DOMAIN canoeDocs :
                      /\ canoeDocs[j].id = c
                      /\ \E k \in DOMAIN canoeDocs[j].assignments :
                            canoeDocs[j].assignments[k] = Entry(s, paddlerDocs[i].id)

\* The fields of a paddler name the seat.
FieldsName(paddlerId, canoeId, seat) ==
    \E i \in DOMAIN paddlers :
        /\ paddlers[i].id = paddlerId
        /\ paddlers[i].assignedCanoe = canoeId
        /\ paddlers[i].assignedSeat = seat

\* C29: global-mode swap.  A holds the source seat and B the destination
\* seat (fields and lists agreeing when the gesture starts) and A is dropped
\* on B's seat: when the gesture has completed, in either order of the
\* concurrent unassignPaddler and assignPaddlerToSeat of B, the destination
\* canoe lists A at the destination seat, the source canoe lists B at the
\* source seat, and both paddlers' fields name their new seat.
C29_GlobalSwap ==
    (/\ ui.handler = "onDragEnd"
     /\ ui.queue = <<>>
     /\ ui.source.kind = "seat"
     /\ ui.destination.kind = "seat"
     /\ ui.source # ui.destination
     /\ Truthy(ui.existingPaddlerId)
     /\ ui.existingPaddlerId # ui.draggableId
     /\ ui.source.canoeId \notin lockedCanoes
     /\ ui.destination.canoeId \notin lockedCanoes
     /\ FieldsMatchLists(ui.before.paddlers, ui.before.canoes)) =>
        /\ HoldsSeat(ui.draggableId, ui.destination.canoeId, ui.destination.seat)
        /\ HoldsSeat(ui.existingPaddlerId, ui.source.canoeId, ui.source.seat)
        /\ FieldsName(ui.draggableId, ui.destination.canoeId, ui.destination.seat)
        /\ FieldsName(ui.existingPaddlerId, ui.source.canoeId, ui.source.seat)

\* C30: global mode: in every state reached after a mutation completes,
\* paddler p has assignedCanoe = c and assignedSeat = s if and only if canoe
\* c's assignments list contains the entry {seat: s, paddlerId: p}.
C30_FieldsMatchLists == FieldsMatchLists(paddlers, canoes)

\* C32: event mode: while canoe X is in the locked set, no user action other
\* than unlocking (drag to a seat, to staging or to the trash target,
\* return-all, assign, priority re-sort, attendance toggle) changes the set of
\* eventAssignments rows of X.
C32_LockedRowsFrozen ==
    [][\A canoeId \in lockedCanoes \cap lockedCanoes' :
          \A row \in Docs(eventAssignments) \cup Docs(eventAssignments') :
              row.canoeId = canoeId =>
                  Copies(eventAssignments', row) = Copies(eventAssignments, row)]_vars

\* The paddlers the event's rows seat in canoes outside excludeSet.
SeatedOutside(table, eventId, excludeSet) ==
    {a.paddlerId : a \in {r \in EventRows(table, eventId) : r.canoeId \notin excludeSet}}

\* C33: a step of assignOptimalForEvent with onlyReassignExisting = true only
\* re-orders: the set of paddlers seated in non-excluded canoes after the call
\* equals the set seated there before it.
C33_ReassignKeepsSeated ==
    [][(/\ last'.op = "assignOptimalForEvent"
        /\ last'.onlyReassignExisting) =>
          SeatedOutside(eventAssignments', SelectedEvent, last'.excludeCanoeIds)
             = SeatedOutside(eventAssignments, SelectedEvent, last'.excludeCanoeIds)]_vars

\* C34: event mode: after the Assign action completes (handleAssign adds
\* canoes until there are ceil(attending/6) of them, then calls
\* assignOptimalForEvent), every attending paddler holds exactly one seat for
\* the event, for any set of locked canoes.
C34_AssignSeatsAttending ==
    (ui.handler = "handleAssign" /\ ui.queue = <<>>) =>
        \A i \in DOMAIN paddlers :
            Attending(paddlers[i].id, SelectedEvent) =>
                RowCount(eventAssignments,
                         RowsOfPaddler(eventAssignments, SelectedEvent, paddlers[i].id)) = 1

\* C35: after removeCanoe(c) succeeds nothing references c: no paddler has
\* assignedCanoe = c and no eventAssignments row of any event has canoeId = c.
C35_RemovedCanoeUnreferenced ==
    [][\A c \in CanoeIds :
          (CanoeFound(c) /\ \A j \in DOMAIN canoes' : canoes'[j].id # c) =>
              /\ \A i \in DOMAIN paddlers' : paddlers'[i].assignedCanoe # c
              /\ \A row \in Docs(eventAssignments') : row.canoeId # c]_vars

(***************************************************************************)
(* Drags on either page.  The front end holds two pages over the same      *)
(* tables, AppMain (event mode) and App (global mode), and a deployment    *)
(* serves one of them: the event page is used while the canoe lists and    *)
(* the paddlers' fields are untouched, the global page while no event has  *)
(* rows.                                                                   *)
(***************************************************************************)
NextPages ==
    \/ /\ \A i \in DOMAIN canoes : canoes[i].assignments = <<>>
       /\ Len(paddlers) = NumPaddlers
       /\ \A i \in DOMAIN paddlers : ~Truthy(paddlers[i].assignedCanoe)
       /\ (onDragEnd \/ AddToEvent \/ ToggleLock)
    \/ /\ eventAssignments = EmptyTable
       /\ attendance = EmptyTable
       /\ (GlobalOnDragEnd \/ ToggleLock)
    \/ MutationCompletes
    \/ MutationThrows
    \/ HandlerReturns

SpecPages == Init /\ [][NextPages]_vars

FrameCrew == 1..2

FrameCalls ==
    {[op |-> "setAttendance", paddlerId |-> p, eventId |-> e, attending |-> TRUE] :
        p \in FrameCrew, e \in Events}
    \cup {AssignCall(c[1], c[2], c[3], c[4]) : c \in {d \in SeatCalls : d[2] \in FrameCrew}}
    \cup {UnassignCall(c[1], c[2], c[3], c[4]) : c \in {d \in SeatCalls : d[2] \in FrameCrew}}
    \cup {[op |-> "unassignAllForEvent", eventId |-> e, excludeCanoeIds |-> x] :
             e \in Events, x \in {{}, {1}}}
    \cup {[op |-> "assignOptimalForEvent", eventId |-> e, priority |-> CANOE_SORT_OPTIONS,
           excludeCanoeIds |-> x, onlyReassignExisting |-> o] :
             e \in Events, x \in {{}, {1}}, o \in BOOLEAN}

CallOnEvent ==
    /\ \E call \in FrameCalls :
          /\ Run(call)
          /\ last' = [call |-> call,
                      rows |-> Cardinality(EventRows(eventAssignments, call.eventId))]
    /\ UNCHANGED <<lockedCanoes, canoePriority, events, ui>>

NextFrame == CallOnEvent

SpecFrame == Init /\ [][NextFrame]_vars

\* C37: every event-mode mutation invoked with eventId E (assignPaddlerToSeat,
\* unassignPaddler, unassignAllForEvent, assignOptimalForEvent) leaves all
\* eventAssignments rows whose eventId differs from E unchanged, and
\* unassignAllForEvent(E, X) leaves the rows of E whose canoeId is in X
\* unchanged while deleting all other rows of E.
C37_OtherEventsUntouched ==
    [][LET call == last'.call
       IN call.op \in {"assignPaddlerToSeat", "unassignPaddler", "unassignAllForEvent",
                       "assignOptimalForEvent"} =>
            \A row \in Docs(eventAssignments) \cup Docs(eventAssignments') :
                /\ row.eventId # call.eventId =>
                      Copies(eventAssignments', row) = Copies(eventAssignments, row)
                /\ (call.op = "unassignAllForEvent" /\ row.eventId = call.eventId) =>
                      Copies(eventAssignments', row) =
                          IF row.canoeId \in call.excludeCanoeIds
                          THEN Copies(eventAssignments, row) ELSE 0]_vars

\* unassignAllForEvent(1, [canoe 1]) has deleted rows of event 1 while event 1
\* keeps a row in canoe 1 and event 2 has rows in both canoes.
C37_Witness ==
    /\ last # NoCall
    /\ last.call.op = "unassignAllForEvent"
    /\ last.call.eventId = 1
    /\ last.call.excludeCanoeIds = {1}
    /\ last.rows > Cardinality(EventRows(eventAssignments, 1))
    /\ \E row \in EventRows(eventAssignments, 1) : row.canoeId = 1
    /\ \E row \in EventRows(eventAssignments, 2) : row.canoeId = 1
    /\ \E row \in EventRows(eventAssignments, 2) : row.canoeId = 2

(***************************************************************************)
(* convex/events.ts                                                        *)
(* A Date is the number of days from 2024-01-01 to its local midnight, or  *)
(* InvalidDate.  A date string "YYYY-MM-DD" is the triple <<y, m, d>>.     *)
(* repeatUntil is given by its parts, split("-").map(Number): NaN for a    *)
(* part that is no number, <<>> for a string absent or empty.  last holds  *)
(* the handler in progress with its locals; the rows reach the table at    *)
(* the end, when the loops are over.                                       *)
(***************************************************************************)
MaxYear == 2025

NaN == -1

InvalidDate == -99999

\* month is 0-based, as in Date.
DaysInMonth(year, month) ==
    IF month = 1
    THEN (IF year % 4 = 0 /\ (year % 100 # 0 \/ year % 400 = 0) THEN 29 ELSE 28)
    ELSE IF month \in {3, 5, 8, 10} THEN 30 ELSE 31

\* The Date of the first day of a month, in days from 2024-01-01 (years
\* 2024 to 2099, where every fourth year is a leap year).
MonthStart(year, month) ==
    365 * (year - 2024) + ((year - 2021) \div 4)
      + <<0, 31, 59, 90, 120, 151, 181, 212, 243, 273, 304, 334>>[month + 1]
      + (IF month > 1 /\ DaysInMonth(year, 1) = 29 THEN 1 ELSE 0)

\* new Date(year, monthIndex, day): a month past 11 or a day outside the
\* month rolls over.
NewDate(year, month, day) ==
    MonthStart(year + (month \div 12), month % 12) + day - 1

\* a <= b on Dates: false when either is invalid.
LessEq(a, b) == a # InvalidDate /\ b # InvalidDate /\ a <= b

\* Date.getDay(): 0 is Sunday; 2024-01-01 is a Monday.
getDay(date) == (date + 1) % 7

\* getFullYear(), getMonth(), getDate() of a valid Date.
Fields(date) ==
    LET year == CHOOSE y \in 2024..(MaxYear + 1) :
                   MonthStart(y, 0) <= date /\ date < MonthStart(y + 1, 0)
        month == CHOOSE m \in 0..11 :
                    /\ MonthStart(year, m) <= date
                    /\ date < MonthStart(year, m) + DaysInMonth(year, m)
    IN [year |-> year, month |-> month, day |-> date - MonthStart(year, month) + 1]

formatDate(d) == <<Fields(d).year, Fields(d).month + 1, Fields(d).day>>

parseEndDate(parts) ==
    IF \E k \in DOMAIN parts : parts[k] = NaN THEN InvalidDate
    ELSE IF Len(parts) >= 3 THEN NewDate(parts[1], parts[2] - 1, parts[3])
    ELSE IF Len(parts) = 2 THEN NewDate(parts[1], parts[2], 0)
    ELSE InvalidDate

\* new Date(args.date + "T00:00:00")
StartDate(args) == NewDate(args.date[1], args.date[2] - 1, args.date[3])

\* const endDate = args.repeatUntil ? parseEndDate(...) : start plus 6 months
EndDate(args) ==
    IF args.repeatUntil # <<>> THEN parseEndDate(args.repeatUntil)
    ELSE LET d == Fields(StartDate(args)) IN NewDate(d.year, d.month + 6, d.day)

GivenWeekdays(args) == args.weekdays

WeekdaysOf(args) ==
    IF Len(args.weekdays) > 0 THEN args.weekdays
    ELSE <<getDay(StartDate(args))>>

\* dates.sort(): zero-padded date strings sort as the dates do.
\* dates.sort(): "YYYY-MM-DD" strings in string order, which is the order of
\* year, then month, then day.
SortKey(date) == date[1] * 10000 + date[2] * 100 + date[3]

SortDates(dates) ==
    LET Before(i, j) == \/ SortKey(dates[i]) < SortKey(dates[j])
                        \/ SortKey(dates[i]) = SortKey(dates[j]) /\ i < j
        Rank(i) == 1 + Cardinality({j \in DOMAIN dates : Before(j, i)})
    IN [k \in DOMAIN dates |-> dates[CHOOSE i \in DOMAIN dates : Rank(i) = k]]

EventRow(id, date, repeating, seriesId) ==
    [id |-> id, date |-> date, repeating |-> repeating, seriesId |-> seriesId]

AddEventArgs ==
    [date : {<<2024, 1, 29>>, <<2024, 1, 31>>},
     repeating : {"none", "weekly", "monthly"},
     weekdays : {<<>>, <<1>>, <<3, 1>>},
     monthdays : {<<>>, <<31>>, <<15, 1>>},
     repeatUntil : {<<>>, <<2024, 2, 14>>, <<2024, 3>>, <<2024, 1, 10>>, <<NaN>>}]

\* The handler up to its loops; with repeating = "none" the whole handler.
\* nanoid() gives an id never given before.
addEvent ==
    /\ IF last = NoCall THEN TRUE ELSE last.pc = "returned"
    /\ events = <<>>
    /\ \E args \in AddEventArgs :
          LET frame == [op |-> "addEvent", args |-> args, pc |-> args.repeating,
                        seriesId |-> Len(events) + 1, endDate |-> EndDate(args),
                        current |-> StartDate(args),
                        currentMonth |-> Fields(StartDate(args)).month,
                        currentYear |-> Fields(StartDate(args)).year,
                        dates |-> <<>>]
          IN IF args.repeating = "none"
             THEN /\ events' = Append(events,
                                      EventRow(Len(events) + 1, args.date, "none", Undefined))
                  /\ last' = [frame EXCEPT !.pc = "returned", !.seriesId = Undefined]
             ELSE /\ last' = frame
                  /\ UNCHANGED events
    /\ UNCHANGED <<paddlers, canoes, eventAssignments, attendance, lockedCanoes,
                   canoePriority, ui>>

\* while (current <= endDate) { ...; current.setDate(current.getDate() + 1) }
WeeklyStep ==
    /\ last # NoCall
    /\ last.pc = "weekly"
    /\ IF LessEq(last.current, last.endDate)
       THEN last' = [last EXCEPT
                        !.dates = IF \E k \in DOMAIN WeekdaysOf(last.args) :
                                         WeekdaysOf(last.args)[k] = getDay(last.current)
                                  THEN Append(@, formatDate(last.current)) ELSE @,
                        !.current = @ + 1]
       ELSE last' = [last EXCEPT !.pc = "insert"]
    /\ UNCHANGED <<paddlers, canoes, eventAssignments, attendance, events, lockedCanoes,
                   canoePriority, ui>>

\* One turn of while (true): the month's days, the next month, the break.
\* The year counter is held at MaxYear; a call with a valid end date has left
\* the loop long before, and with an invalid one no comparison depends on it.
MonthlyTurn(frame) ==
    LET args == frame.args
        monthdays == IF Len(args.monthdays) > 0 THEN args.monthdays
                     ELSE <<Fields(StartDate(args)).day>>
        kept == SelectSeq(monthdays,
                    LAMBDA day :
                       /\ day <= DaysInMonth(frame.currentYear, frame.currentMonth)
                       /\ LessEq(StartDate(args),
                                 NewDate(frame.currentYear, frame.currentMonth, day))
                       /\ LessEq(NewDate(frame.currentYear, frame.currentMonth, day),
                                 frame.endDate))
        dates == frame.dates
                 \o [k \in 1..Len(kept) |->
                        formatDate(NewDate(frame.currentYear, frame.currentMonth, kept[k]))]
        nextMonth == IF frame.currentMonth + 1 > 11 THEN 0 ELSE frame.currentMonth + 1
        nextYear == IF frame.currentMonth + 1 > 11 /\ frame.currentYear < MaxYear
                    THEN frame.currentYear + 1
                    ELSE frame.currentYear
    IN IF frame.endDate # InvalidDate /\ NewDate(nextYear, nextMonth, 1) > frame.endDate
       THEN [frame EXCEPT !.dates = dates, !.currentMonth = nextMonth,
                          !.currentYear = nextYear, !.pc = "sort"]
       ELSE [frame EXCEPT !.dates = dates, !.currentMonth = nextMonth,
                          !.currentYear = nextYear]

MonthlyStep ==
    /\ last # NoCall
    /\ last.pc = "monthly"
    /\ last' = MonthlyTurn(last)
    /\ UNCHANGED <<paddlers, canoes, eventAssignments, attendance, events, lockedCanoes,
                   canoePriority, ui>>

\* dates.sort(), after the monthly loop.
SortDatesStep ==
    /\ last # NoCall
    /\ last.pc = "sort"
    /\ last' = [last EXCEPT !.dates = SortDates(last.dates), !.pc = "insert"]
    /\ UNCHANGED <<paddlers, canoes, eventAssignments, attendance, events, lockedCanoes,
                   canoePriority, ui>>

\* for (const date of dates) insert a row with a new id and the seriesId.
InsertRows ==
    /\ last # NoCall
    /\ last.pc = "insert"
    /\ events' = events \o [k \in 1..Len(last.dates) |->
                               EventRow(last.seriesId + k, last.dates[k],
                                        last.args.repeating, last.seriesId)]
    /\ last' = [last EXCEPT !.pc = "returned"]
    /\ UNCHANGED <<paddlers, canoes, eventAssignments, attendance, lockedCanoes,
                   canoePriority, ui>>

NextAddEvent ==
    \/ addEvent
    \/ WeeklyStep
    \/ MonthlyStep
    \/ SortDatesStep
    \/ InsertRows

SpecAddEvent == Init /\ [][NextAddEvent]_vars

\* The handler, once called, keeps running.
SpecAddEventRuns ==
    /\ Init
    /\ [][NextAddEvent]_vars
    /\ WF_vars(WeeklyStep)
    /\ WF_vars(MonthlyStep)
    /\ WF_vars(SortDatesStep)
    /\ WF_vars(InsertRows)

\* C38: addEvent terminates for every argument combination, including a
\* monthly recurrence whose end date is earlier than the start date and a
\* repeatUntil string that does not parse to a date.
C38_AddEventTerminates ==
    (last # NoCall) ~> (last # NoCall /\ last.pc = "returned")

\* The rows of the table whose date is the given one.
RowsDated(date) == {k \in DOMAIN events : events[k].date = date}

====
